---------------------------- MODULE Spec2Model ----------------------------
(***************************************************************************)
(* A model of smart_pdf_parser's PDFParser (core/parser.py): one parser    *)
(* instance, its fields, and the parse operation with the handlers it      *)
(* calls (text-block extraction, font analysis, structure building from    *)
(* the outline / the detected headings / one section per page, page-range  *)
(* resolution, content population and the assignment of detected tables   *)
(* to sections), and of table detection on one page, by                    *)
(* PDFParser._detect_tables and by TableDetector (core/tables.py).         *)
(*                                                                         *)
(* Conventions.  Python lists are sequences, dicts are functions over the  *)
(* set of their keys, a 4-tuple bbox (x0, y0, x1, y1) is the sequence      *)
(* <<x0, y0, x1, y1>>, so Python's bbox[1] is bbox[2] here.  A section's   *)
(* content string "\n\n".join(content) is kept as the sequence of the      *)
(* block texts that were joined.  Texts come from a finite vocabulary; the *)
(* string functions the code applies to them (len, strip, isupper, the     *)
(* numbered-heading regex) are tabulated for that vocabulary.  Font sizes  *)
(* are integers (points); thresholds are kept in tenths of a point.        *)
(***************************************************************************)
EXTENDS Integers, Sequences, FiniteSets, TLC

(***************************************************************************)
(* Bounds of the model.                                                    *)
(***************************************************************************)
MaxPages == 3
MaxToc == 3
MaxCalls == 2
MaxLifePages == 2

(***************************************************************************)
(* Python builtins the code uses.                                          *)
(***************************************************************************)
Max2(a, b) == IF a >= b THEN a ELSE b

Min2(a, b) == IF a <= b THEN a ELSE b

\* min(xs) of a non-empty list of integers
MinOf(xs) == CHOOSE m \in {xs[i] : i \in 1..Len(xs)} : \A i \in 1..Len(xs) : m <= xs[i]

\* list(range(a, b + 1)): empty when b < a
PyRange(a, b) == [k \in 1..(IF b >= a THEN b - a + 1 ELSE 0) |-> a + k - 1]

SeqToSet(xs) == {xs[i] : i \in 1..Len(xs)}

\* sorted(list(S)) of a finite set of integers
RECURSIVE SortedList(_)
SortedList(S) ==
    IF S = {} THEN <<>>
    ELSE LET m == CHOOSE x \in S : \A y \in S : x <= y
         IN <<m>> \o SortedList(S \ {m})

(***************************************************************************)
(* The text vocabulary and the string functions on it.                     *)
(***************************************************************************)
BlankTitle == "  "

TocTitles == <<"Intro", "Background", "Methods", "Results">>

\* str.strip(): the vocabulary's only text with surrounding whitespace is
\* the blank one
Strip(t) == IF t = BlankTitle THEN "" ELSE t

\* len(text)
TextLen(t) ==
    CASE t = "Intro" -> 5
      [] t = "Background" -> 10
      [] t = "Methods" -> 7
      [] t = "Results" -> 7
      [] t = "1. Scope" -> 8
      [] t = "1.1. Goals" -> 10
      [] t = "NOTES" -> 5
      [] t = "2.1 Data" -> 8
      [] t = "Appendix A: Data" -> 16
      [] t = "Lorem ipsum dolor sit" -> 21
      [] t = "Alpha" -> 5
      [] t = "Beta" -> 4
      [] t = "Gamma" -> 5
      [] t = "Delta" -> 5
      [] t = BlankTitle -> 2
      [] OTHER -> 0

\* re.match(r"^\d+(\.\d+)*\.\s+\w+", text)
IsNumbered(t) == t \in {"1. Scope", "1.1. Goals"}

\* text.split(" ")[0].count(".")
Dots(t) ==
    CASE t = "1. Scope" -> 1
      [] t = "1.1. Goals" -> 2
      [] OTHER -> 0

\* text.isupper()
IsUpper(t) == t = "NOTES"

\* f"Page {page_num}"
PageTitle(n) ==
    CASE n = 1 -> "Page 1"
      [] n = 2 -> "Page 2"
      [] n = 3 -> "Page 3"
      [] n = 4 -> "Page 4"
      [] n = 5 -> "Page 5"
      [] n = 6 -> "Page 6"
      [] n = 7 -> "Page 7"
      [] OTHER -> "Page 8"

(***************************************************************************)
(* Section and Document (models/document.py).  Assignment to a field and   *)
(* list.append do not run the pydantic validators; only construction does. *)
(***************************************************************************)
Section(title, level, pages, content) ==
    [title |-> title, level |-> level, pages |-> pages, content |-> content,
     tables |-> <<>>, subsections |-> <<>>]

Document(pages, sections) == [pages |-> pages, sections |-> sections]

\* Document.get_all_sections: the sections in preorder
RECURSIVE get_all_sections(_)
get_all_sections(sections) ==
    IF sections = <<>> THEN <<>>
    ELSE <<Head(sections)>> \o get_all_sections(Head(sections).subsections)
             \o get_all_sections(Tail(sections))


(***************************************************************************)
(* PDFParser._calculate_section_page_ranges.                               *)
(***************************************************************************)
\* float('inf') in the sort key of a section without pages
PageInf == 1000000

\* the sort key: min(s.pages) if s.pages else float('inf')
StartKey(s) == IF s.pages # <<>> THEN MinOf(s.pages) ELSE PageInf

RECURSIVE insert_by_start(_, _)
insert_by_start(sorted, s) ==
    IF sorted = <<>> THEN <<s>>
    ELSE IF StartKey(Head(sorted)) <= StartKey(s)
         THEN <<Head(sorted)>> \o insert_by_start(Tail(sorted), s)
         ELSE <<s>> \o sorted

\* sections.sort(key=...): list.sort is stable
RECURSIVE sort_by_start(_)
sort_by_start(sections) ==
    IF sections = <<>> THEN <<>>
    ELSE insert_by_start(sort_by_start(SubSeq(sections, 1, Len(sections) - 1)),
                         sections[Len(sections)])

\* the end page of sections[i]: the next sibling's start - 1, or the end of
\* the document for the last sibling; the next sibling still holds the
\* pages it had before the loop reached it
end_page(sections, i, total_pages) ==
    IF i < Len(sections) THEN MinOf(sections[i + 1].pages) - 1 ELSE total_pages

\* a parent that is never adjusted
adjust_parent_pages_never(section_pages, subsections) == section_pages

\* the pages of a parent after its subsections were resolved
adjust_parent_pages(section_pages, subsections) ==
    LET all_subsection_pages ==
            UNION {SeqToSet(subsections[k].pages) : k \in 1..Len(subsections)}
    IN IF all_subsection_pages \subseteq SeqToSet(section_pages)
       THEN section_pages
       ELSE SortedList(SeqToSet(section_pages) \cup all_subsection_pages)

RECURSIVE calculate_section_page_ranges(_, _)
\* one iteration of the loop over the sorted siblings
resolve_section(sections, i, total_pages) ==
    LET section == sections[i]
        start_page == MinOf(section.pages)
        pages == PyRange(start_page, end_page(sections, i, total_pages))
    IN IF section.subsections = <<>>
       THEN [section EXCEPT !.pages = pages]
       ELSE LET subs == calculate_section_page_ranges(section.subsections,
                                                          total_pages)
            IN [section EXCEPT !.pages = adjust_parent_pages(pages, subs),
                               !.subsections = subs]

calculate_section_page_ranges(sections, total_pages) ==
    LET sorted == sort_by_start(sections)
    IN [i \in 1..Len(sorted) |-> resolve_section(sorted, i, total_pages)]

(***************************************************************************)
(* PDFParser._populate_section_content.                                    *)
(***************************************************************************)
\* dict.get(key, [])
GetOrEmpty(d, k) == IF k \in DOMAIN d THEN d[k] ELSE <<>>

TextsOf(blocks) == [i \in 1..Len(blocks) |-> blocks[i].text]

RECURSIVE Flatten(_)
Flatten(seqs) == IF seqs = <<>> THEN <<>> ELSE Head(seqs) \o Flatten(Tail(seqs))

\* a section that skips no block
skips_no_block(section, block) == FALSE

\* "Skip the heading itself": if block["text"] == section.title: continue
skips_block(section, block) == block.text = section.title

\* the block texts of a section that stops at the first heading on every
\* page, also on the pages none of its subsections holds
page_content_above_headings(section, page_num, candidates, blocks_by_page) ==
    LET subsection_ranges ==
            UNION {SeqToSet(section.subsections[k].pages) :
                       k \in 1..Len(section.subsections)}
        blocks == GetOrEmpty(blocks_by_page, page_num)
        headings == GetOrEmpty(candidates, page_num)
        heading_blocks ==
            {headings[k].bbox[2] : k \in {j \in 1..Len(headings) :
                                             headings[j].text # section.title}}
        BeforeHeadings(b) ==
            /\ b.text # section.title
            /\ \/ heading_blocks = {}
               \/ \A y \in heading_blocks : b.bbox[2] < y
    IN IF page_num \in subsection_ranges /\ page_num # MinOf(section.pages)
       THEN <<>>
       ELSE TextsOf(SelectSeq(blocks, BeforeHeadings))

\* the block texts a section takes from one of its pages
page_content(section, page_num, candidates, blocks_by_page) ==
    LET subsection_ranges ==
            UNION {SeqToSet(section.subsections[k].pages) :
                       k \in 1..Len(section.subsections)}
        blocks == GetOrEmpty(blocks_by_page, page_num)
        headings == GetOrEmpty(candidates, page_num)
        heading_blocks ==
            {headings[k].bbox[2] : k \in {j \in 1..Len(headings) :
                                             headings[j].text # section.title}}
        NotTitle(b) == ~skips_block(section, b)
        BeforeHeadings(b) ==
            /\ ~skips_block(section, b)
            /\ \/ heading_blocks = {}
               \/ \A y \in heading_blocks : b.bbox[2] < y
    IN IF page_num \in subsection_ranges
       THEN IF page_num = MinOf(section.pages)
            THEN TextsOf(SelectSeq(blocks, BeforeHeadings))
            ELSE <<>>
       ELSE TextsOf(SelectSeq(blocks, NotTitle))

section_content(section, candidates, blocks_by_page) ==
    Flatten([k \in 1..Len(section.pages) |->
                 page_content(section, section.pages[k], candidates, blocks_by_page)])

RECURSIVE populate_section_content(_, _, _)
populate_section_content(sections, candidates, blocks_by_page) ==
    [i \in 1..Len(sections) |->
        [sections[i] EXCEPT
            !.content = section_content(sections[i], candidates, blocks_by_page),
            !.subsections = populate_section_content(@, candidates, blocks_by_page)]]

(***************************************************************************)
(* The tree assembly of _create_structure_from_toc and                     *)
(* _create_structure_from_headings.  section_stack holds references to     *)
(* sections of the tree under construction; it is always the chain that    *)
(* starts at the last top-level section and goes from each section to its  *)
(* last subsection, so it is kept as the sequence of the levels of the     *)
(* sections on it, and "append to section_stack[-1].subsections" is an     *)
(* append at that depth of the chain.                                      *)
(***************************************************************************)
RECURSIVE append_at_depth(_, _, _)
append_at_depth(sections, depth, new_section) ==
    IF depth = 0 THEN Append(sections, new_section)
    ELSE [sections EXCEPT ![Len(sections)].subsections =
                              append_at_depth(@, depth - 1, new_section)]

\* places new_section given the stack left by the pops
attach(st, kept, new_section) ==
    IF new_section.level = 1
    THEN [sections |-> Append(st.sections, new_section),
          stack |-> <<new_section.level>>]
    ELSE [sections |-> append_at_depth(st.sections, Len(kept), new_section),
          stack |-> Append(kept, new_section.level)]

\* while len(section_stack) >= level: section_stack.pop()
toc_pops(stack, level) == SubSeq(stack, 1, Min2(Len(stack), level - 1))

\* the pops with > in place of >=
RECURSIVE heading_pops_strict(_, _)
heading_pops_strict(stack, level) ==
    IF stack # <<>> /\ stack[Len(stack)] > level
    THEN heading_pops_strict(SubSeq(stack, 1, Len(stack) - 1), level)
    ELSE stack

\* while section_stack and section_stack[-1].level >= level: section_stack.pop()
RECURSIVE heading_pops(_, _)
heading_pops(stack, level) ==
    IF stack # <<>> /\ stack[Len(stack)] >= level
    THEN heading_pops(SubSeq(stack, 1, Len(stack) - 1), level)
    ELSE stack

\* one iteration of the loop over the outline entries
toc_entry(st, entry) ==
    LET level == Max2(1, entry[1])
        title == Strip(entry[2])
        page == Max2(1, entry[3])
    IN IF title = "" THEN st
       ELSE attach(st, toc_pops(st.stack, level), Section(title, level, <<page>>, <<>>))

\* len(current_pages): current_pages = [set() for _ in range(100)]
CurrentPagesLen == 100

\* the exception one iteration of the loop over the outline entries raises:
\* "level, title, page = entry" needs exactly three fields, and
\* current_pages[level] an index below len(current_pages), which is looked at
\* only after an entry with a blank title was skipped
entry_raises(entry) ==
    IF Len(entry) # 3 THEN "ValueError"
    ELSE IF Strip(entry[2]) # "" /\ Max2(1, entry[1]) >= CurrentPagesLen THEN "IndexError"
    ELSE "none"

\* the exception the loop over the outline entries ends with
RECURSIVE toc_raises(_)
toc_raises(toc) ==
    IF toc = <<>> THEN "none"
    ELSE IF entry_raises(Head(toc)) # "none" THEN entry_raises(Head(toc))
    ELSE toc_raises(Tail(toc))

RECURSIVE toc_loop(_, _)
toc_loop(st, toc) ==
    IF toc = <<>> THEN st ELSE toc_loop(toc_entry(st, Head(toc)), Tail(toc))

\* one iteration of the loop over the sorted headings
heading_entry(st, heading) ==
    attach(st, heading_pops(st.stack, heading.level),
           Section(heading.title, heading.level, <<heading.page>>, <<>>))

RECURSIVE heading_loop(_, _)
heading_loop(st, headings) ==
    IF headings = <<>> THEN st
    ELSE heading_loop(heading_entry(st, Head(headings)), Tail(headings))

\* the resolution and the content population both builders end with
finish_structure(document, sections, candidates, blocks_by_page) ==
    LET resolved == IF sections # <<>>
                    THEN calculate_section_page_ranges(sections, document.pages)
                    ELSE sections
    IN [document EXCEPT
           !.sections = populate_section_content(resolved, candidates, blocks_by_page)]

create_structure_from_toc(document, toc, candidates, blocks_by_page) ==
    IF toc = <<>> THEN document
    ELSE finish_structure(
             document,
             toc_loop([sections |-> document.sections, stack |-> <<>>], toc).sections,
             candidates, blocks_by_page)

\* the headings of all pages, pages ascending, as (title, level, page, bbox)
RECURSIVE collect_headings(_, _)
collect_headings(candidates, pages) ==
    IF pages = <<>> THEN <<>>
    ELSE LET page_num == Head(pages)
             hs == candidates[page_num]
         IN [k \in 1..Len(hs) |->
                [title |-> hs[k].text, level |-> hs[k].level,
                 page |-> page_num, bbox |-> hs[k].bbox]]
            \o collect_headings(candidates, Tail(pages))

HeadingBefore(a, b) ==
    \/ a.page < b.page
    \/ a.page = b.page /\ a.bbox[2] <= b.bbox[2]

RECURSIVE insert_heading(_, _)
insert_heading(sorted, h) ==
    IF sorted = <<>> THEN <<h>>
    ELSE IF HeadingBefore(Head(sorted), h)
         THEN <<Head(sorted)>> \o insert_heading(Tail(sorted), h)
         ELSE <<h>> \o sorted

\* all_headings.sort(key=lambda h: (h["page"], h["bbox"][1]))
RECURSIVE sort_headings(_)
sort_headings(hs) ==
    IF hs = <<>> THEN <<>>
    ELSE insert_heading(sort_headings(SubSeq(hs, 1, Len(hs) - 1)), hs[Len(hs)])

create_structure_from_headings(document, candidates, blocks_by_page) ==
    LET all_headings == collect_headings(candidates, SortedList(DOMAIN candidates))
    IN IF all_headings = <<>> THEN document
       ELSE finish_structure(
                document,
                heading_loop([sections |-> document.sections, stack |-> <<>>],
                             sort_headings(all_headings)).sections,
                candidates, blocks_by_page)

\* range(1, page_count) in place of range(1, page_count + 1)
simple_last_page_short(page_count) == page_count - 1

\* the last page number _create_simple_structure makes a section for
simple_last_page(page_count) == page_count

create_simple_structure(document, page_count, blocks_by_page) ==
    [document EXCEPT !.sections = @ \o
        [k \in 1..simple_last_page(page_count) |->
            Section(PageTitle(k), 1, <<k>>, TextsOf(GetOrEmpty(blocks_by_page, k)))]]

(***************************************************************************)
(* PDFParser._extract_text_blocks.  A page of the input is the list of its *)
(* text blocks as the code assembles them from the spans:                  *)
(* [text, bbox, font_size, is_bold].                                       *)
(***************************************************************************)
BlockBefore(a, b) ==
    \/ a.bbox[2] < b.bbox[2]
    \/ a.bbox[2] = b.bbox[2] /\ a.bbox[1] <= b.bbox[1]

RECURSIVE insert_block(_, _)
insert_block(sorted, b) ==
    IF sorted = <<>> THEN <<b>>
    ELSE IF BlockBefore(Head(sorted), b)
         THEN <<Head(sorted)>> \o insert_block(Tail(sorted), b)
         ELSE <<b>> \o sorted

\* text_blocks.sort(key=lambda b: (b["bbox"][1], b["bbox"][0]))
RECURSIVE sort_blocks(_)
sort_blocks(bs) ==
    IF bs = <<>> THEN <<>>
    ELSE insert_block(sort_blocks(SubSeq(bs, 1, Len(bs) - 1)), bs[Len(bs)])

extract_text_blocks(pdf_doc, page_count) ==
    LET HasText(b) == b.text # ""
    IN [p \in 1..page_count |-> sort_blocks(SelectSeq(pdf_doc.blocks[p], HasText))]

(***************************************************************************)
(* PDFParser._analyze_font_statistics, with the default configuration      *)
(* min_heading_size = 12.0 and heading_size_threshold = 1.2 (in tenths).   *)
(***************************************************************************)
MinHeadingSize10 == 120
HeadingRatio10 == 12

RECURSIVE SumLen(_)
SumLen(blocks) ==
    IF blocks = <<>> THEN 0 ELSE TextLen(Head(blocks).text) + SumLen(Tail(blocks))

\* font_size_text_length[font_size]
text_length_of_size(all_blocks, size) ==
    LET HasSize(b) == b.font_size = size
    IN SumLen(SelectSeq(all_blocks, HasSize))

\* max(font_size_text_length.items(), key=lambda x: x[1])[0]: the first size,
\* in the order the sizes were first met, with the greatest total length
normal_size_of(all_blocks) ==
    LET Total(i) == text_length_of_size(all_blocks, all_blocks[i].font_size)
        best == CHOOSE i \in 1..Len(all_blocks) :
                    /\ \A j \in 1..Len(all_blocks) : Total(j) <= Total(i)
                    /\ \A j \in 1..(i - 1) : Total(j) < Total(i)
    IN all_blocks[best].font_size

heading_threshold_of(normal_size) == Max2(MinHeadingSize10, normal_size * HeadingRatio10)

\* the level the loop gives a block; 0 when the block is no heading
heading_level_of(block, threshold10) ==
    LET by_size ==
            IF 10 * block.font_size >= threshold10
            THEN IF 20 * block.font_size >= 3 * threshold10 THEN 1
                 ELSE IF 40 * block.font_size >= 5 * threshold10 THEN 2
                 ELSE IF block.is_bold THEN 3 ELSE 4
            ELSE 0
        by_number ==
            IF IsNumbered(block.text) THEN Min2(Dots(block.text) + 1, 5) ELSE by_size
        by_bold ==
            IF block.is_bold /\ TextLen(block.text) < 100 /\ Strip(block.text) # ""
               /\ by_number = 0
            THEN 3 ELSE by_number
    IN IF IsUpper(block.text) /\ 3 < TextLen(block.text) /\ TextLen(block.text) < 50
          /\ by_bold = 0
       THEN 3 ELSE by_bold

\* page_headings of one page
page_headings_of(blocks, threshold10) ==
    LET IsHeading(b) == heading_level_of(b, threshold10) # 0
        hb == SelectSeq(blocks, IsHeading)
    IN [k \in 1..Len(hb) |->
           [text |-> hb[k].text, level |-> heading_level_of(hb[k], threshold10),
            bbox |-> hb[k].bbox, font_size |-> hb[k].font_size,
            is_bold |-> hb[k].is_bold]]

\* the candidates kept if the new page lists were appended to the old ones
stored_heading_candidates_appended(old_candidates, found) ==
    [p \in DOMAIN old_candidates \cup DOMAIN found |->
        GetOrEmpty(old_candidates, p) \o GetOrEmpty(found, p)]

\* self.heading_candidates after the identification loop: reset to {} and
\* then given the pages that have headings
stored_heading_candidates(old_candidates, found) == found

\* returns the new (font_stats, heading_candidates)
analyze_font_statistics(blocks_by_page, old_stats, old_candidates) ==
    LET all_blocks == Flatten(blocks_by_page)
    IN IF all_blocks = <<>>
       THEN [font_stats |-> old_stats, heading_candidates |-> old_candidates]
       ELSE LET normal_size == normal_size_of(all_blocks)
                threshold10 == heading_threshold_of(normal_size)
                with_headings ==
                    {p \in DOMAIN blocks_by_page :
                         page_headings_of(blocks_by_page[p], threshold10) # <<>>}
                found == [p \in with_headings |->
                              page_headings_of(blocks_by_page[p], threshold10)]
            IN [font_stats |-> {[normal_size |-> normal_size,
                                 heading_threshold |-> threshold10]},
                heading_candidates |-> stored_heading_candidates(old_candidates, found)]

(***************************************************************************)
(* The parser instance and PDFParser.parse.                                *)
(***************************************************************************)
VARIABLES
    detect_tables,        \* configuration, fixed at construction
    use_toc,              \* configuration, fixed at construction
    detect_headings,      \* configuration, fixed at construction
    page_count,           \* self.page_count
    toc_available,        \* self.toc_available
    text_blocks_by_page,  \* self.text_blocks_by_page
    font_stats,           \* self.font_stats
    heading_candidates,   \* self.heading_candidates
    pdf,                  \* the input of the current or last parse call
    outcome,              \* how the last parse call ended
    document,             \* the Document the last parse call returned
    source,               \* the builder its sections came from
    table_page,           \* page_num in the page loop of _extract_tables, else 0
    pdf_page,             \* the page handed to table detection
    detected,             \* what table detection returned for it, and who ran
    call_args,            \* the arguments of a call of one function on its own
    call_result,          \* what that call returned
    calls,                \* the number of parse calls made so far
    repeated              \* the last call had the input of the call before it

vars == <<detect_tables, use_toc, detect_headings, page_count, toc_available, text_blocks_by_page,
          font_stats, heading_candidates, pdf, outcome, document, source,
          table_page, pdf_page, detected, call_args, call_result, calls, repeated>>

\* no function was called on its own
NoCall == <<>>

EmptyDict == [p \in {} |-> <<>>]

\* no page was handed to table detection
NoPage == [number |-> 0, drawings |-> <<>>, blocks |-> <<>>]

\* table detection did not run
NotDetected == [by |-> "none", tables |-> <<>>]

NoDocument == [pages |-> 0, sections |-> <<>>]

NoPdf == [page_count |-> 0, toc |-> <<>>, blocks |-> <<>>, drawings |-> <<>>, fails |-> {}]

\* the fields PDFParser.__init__ sets
new_parser(c_detect_tables, c_use_toc, c_detect_headings) ==
    [detect_tables |-> c_detect_tables, use_toc |-> c_use_toc, detect_headings |-> c_detect_headings,
     page_count |-> 0, toc_available |-> FALSE, text_blocks_by_page |-> EmptyDict,
     font_stats |-> {}, heading_candidates |-> EmptyDict]

\* Table(caption=f"Table on page {page_num}", page=page_num, ...): the idx-th
\* table found on a page
Table(page_num, idx) ==
    [caption |-> <<"Table on page", page_num>>, page |-> page_num, idx |-> idx]

\* _detect_tables: one Table for each ruled grid among the drawings of the
\* page that has the rows and columns a table needs
detect_tables_on(pdf_doc, page_num) ==
    [idx \in 1..pdf_doc.drawings[page_num] |-> Table(page_num, idx)]

\* what _detect_tables raises on a page: it wraps every exception of the
\* detection (pdf_doc.fails holds the pages whose drawings make it fail)
detect_tables_raises(pdf_doc, page_num) ==
    IF page_num \in pdf_doc.fails THEN "TableExtractionError" ELSE "none"

\* a page loop that catches nothing
caught_nothing(raised) == FALSE

\* except TableExtractionError: continue
caught_in_page_loop(raised) == raised = "TableExtractionError"

\* the tables the page loop has to assign for a page
page_tables(pdf_doc, page_num) ==
    IF detect_tables_raises(pdf_doc, page_num) # "none" THEN <<>>
    ELSE detect_tables_on(pdf_doc, page_num)

\* the section a table of page page_num is appended to, as its position in
\* all_sections: the first of the sections with the fewest pages among those
\* that hold the page; 0 when no section holds it and the table is lost
best_section(all_sections, page_num) ==
    LET holding == {k \in 1..Len(all_sections) :
                       page_num \in SeqToSet(all_sections[k].pages)}
        fewest == {k \in holding :
                      \A j \in holding :
                          Len(all_sections[k].pages) <= Len(all_sections[j].pages)}
    IN IF holding = {} THEN 0
       ELSE CHOOSE k \in fewest : \A j \in fewest : k <= j

\* every section that holds the page gets its tables
RECURSIVE tables_for_all_holding(_, _, _, _, _)
tables_for_all_holding(all_sections, pdf_doc, k, page_num, last_page) ==
    IF page_num > last_page THEN <<>>
    ELSE (IF page_num \in SeqToSet(all_sections[k].pages)
          THEN page_tables(pdf_doc, page_num) ELSE <<>>)
         \o tables_for_all_holding(all_sections, pdf_doc, k, page_num + 1, last_page)

\* the tables appended to the section at position k of all_sections, page
\* after page, for the pages page_num..last_page
RECURSIVE tables_for(_, _, _, _, _)
tables_for(all_sections, pdf_doc, k, page_num, last_page) ==
    IF page_num > last_page THEN <<>>
    ELSE (IF best_section(all_sections, page_num) = k
          THEN page_tables(pdf_doc, page_num) ELSE <<>>)
         \o tables_for(all_sections, pdf_doc, k, page_num + 1, last_page)

\* the number of sections of a subtree list
RECURSIVE tree_size(_)
tree_size(sections) ==
    IF sections = <<>> THEN 0
    ELSE 1 + tree_size(Head(sections).subsections) + tree_size(Tail(sections))

\* the tree with every section given its tables of the pages
\* first_page..last_page; first is the position in all_sections of the first
\* section of the list
RECURSIVE with_tables(_, _, _, _, _, _)
with_tables(sections, first, all_sections, pdf_doc, first_page, last_page) ==
    IF sections = <<>> THEN <<>>
    ELSE LET s == Head(sections)
         IN << [s EXCEPT
                  !.tables = s.tables \o tables_for(all_sections, pdf_doc, first,
                                                    first_page, last_page),
                  !.subsections = with_tables(s.subsections, first + 1, all_sections,
                                              pdf_doc, first_page, last_page)] >>
            \o with_tables(Tail(sections), first + 1 + tree_size(s.subsections),
                           all_sections, pdf_doc, first_page, last_page)

\* one iteration of the page loop of _extract_tables that raises nothing
extract_tables_of_page(pdf_doc, doc, page_num) ==
    [doc EXCEPT !.sections =
        with_tables(doc.sections, 1, get_all_sections(doc.sections), pdf_doc,
                    page_num, page_num)]

\* the exception the page loop of _extract_tables lets through, from page
\* page_num on
RECURSIVE extract_tables_raises(_, _, _)
extract_tables_raises(pdf_doc, page_num, last_page) ==
    IF page_num > last_page THEN "none"
    ELSE LET raised == detect_tables_raises(pdf_doc, page_num)
         IN IF raised # "none" /\ ~caught_in_page_loop(raised) THEN raised
            ELSE extract_tables_raises(pdf_doc, page_num + 1, last_page)

\* _extract_tables
extract_tables(self_page_count, pdf_doc, doc) ==
    [doc EXCEPT !.sections =
        with_tables(doc.sections, 1, get_all_sections(doc.sections), pdf_doc,
                    1, self_page_count)]

\* a validation that lets every page count through
validate_rejects_nothing(pdf_doc) == FALSE

\* validate_pdf_file: TRUE when it raises PDFInputError for the page count
validate_rejects(pdf_doc) == pdf_doc.page_count = 0

\* Document.validate_pages: TRUE when constructing the Document raises
document_rejects(pages) == pages <= 0

\* self.toc_available after the outline was looked at
toc_flag(old_flag, c_use_toc, toc) == old_flag \/ (c_use_toc /\ toc # <<>>)

\* the builder the sections of the returned Document come from
structure_source_of(from_toc, from_headings) ==
    IF from_toc.sections # <<>> THEN "toc"
    ELSE IF from_headings.sections # <<>> THEN "headings"
    ELSE "simple"

\* _create_document_structure, given the instance after font analysis
create_document_structure(self, pdf_doc) ==
    LET empty == Document(self.page_count, <<>>)
        flag == toc_flag(self.toc_available, self.use_toc, pdf_doc.toc)
        from_toc ==
            IF self.use_toc /\ pdf_doc.toc # <<>>
            THEN create_structure_from_toc(empty, pdf_doc.toc, self.heading_candidates,
                                           self.text_blocks_by_page)
            ELSE empty
        from_headings ==
            IF ~flag /\ self.detect_headings /\ DOMAIN self.heading_candidates # {}
            THEN create_structure_from_headings(from_toc, self.heading_candidates,
                                                self.text_blocks_by_page)
            ELSE from_toc
        structured ==
            IF from_headings.sections = <<>>
            THEN create_simple_structure(from_headings, self.page_count,
                                         self.text_blocks_by_page)
            ELSE from_headings
        raised == IF self.use_toc THEN toc_raises(pdf_doc.toc) ELSE "none"
    IN IF raised # "none"
       THEN [toc_available |-> flag, raised |-> raised, document |-> NoDocument,
             source |-> "none"]
       ELSE [toc_available |-> flag, raised |-> "none", document |-> structured,
             source |-> structure_source_of(from_toc, from_headings)]

\* PDFParser.parse on the instance self: the instance it leaves, how the
\* call ended and the Document it returned
parse_result(self, pdf_doc) ==
    IF validate_rejects(pdf_doc)
    THEN [self |-> self, outcome |-> "PDFInputError", document |-> NoDocument,
          source |-> "none"]
    ELSE
    LET blocks == extract_text_blocks(pdf_doc, pdf_doc.page_count)
        analysed ==
            IF self.detect_headings
            THEN analyze_font_statistics(blocks, self.font_stats, self.heading_candidates)
            ELSE [font_stats |-> self.font_stats,
                  heading_candidates |-> self.heading_candidates]
        self1 == [self EXCEPT !.page_count = pdf_doc.page_count,
                              !.text_blocks_by_page = blocks,
                              !.font_stats = analysed.font_stats,
                              !.heading_candidates = analysed.heading_candidates]
    IN IF document_rejects(self1.page_count)
       THEN [self |-> self1, outcome |-> "ValidationError", document |-> NoDocument,
             source |-> "none"]
       ELSE LET built == create_document_structure(self1, pdf_doc)
                with_tables_added ==
                    IF self.detect_tables
                    THEN extract_tables(self1.page_count, pdf_doc, built.document)
                    ELSE built.document
                tables_raised ==
                    IF self.detect_tables
                    THEN extract_tables_raises(pdf_doc, 1, self1.page_count)
                    ELSE "none"
            IN IF built.raised # "none"
               THEN [self |-> [self1 EXCEPT !.toc_available = built.toc_available],
                     outcome |-> built.raised, document |-> NoDocument,
                     source |-> "none"]
               ELSE IF tables_raised # "none"
               THEN [self |-> [self1 EXCEPT !.toc_available = built.toc_available],
                     outcome |-> tables_raised, document |-> NoDocument,
                     source |-> "none"]
               ELSE [self |-> [self1 EXCEPT !.toc_available = built.toc_available],
                     outcome |-> "returned", document |-> with_tables_added,
                     source |-> built.source]

\* the instance as a record
Self ==
    [detect_tables |-> detect_tables, use_toc |-> use_toc, detect_headings |-> detect_headings,
     page_count |-> page_count, toc_available |-> toc_available,
     text_blocks_by_page |-> text_blocks_by_page, font_stats |-> font_stats,
     heading_candidates |-> heading_candidates]

\* one call of parse
parse(pdf_doc) ==
    /\ calls < MaxCalls
    /\ \E r \in {parse_result(Self, pdf_doc)} :
       /\ calls' = calls + 1
       /\ pdf' = pdf_doc
       /\ repeated' = (calls >= 1 /\ pdf_doc = pdf)
       /\ outcome' = r.outcome
       /\ document' = r.document
       /\ source' = r.source
       /\ page_count' = r.self.page_count
       /\ toc_available' = r.self.toc_available
       /\ text_blocks_by_page' = r.self.text_blocks_by_page
       /\ font_stats' = r.self.font_stats
       /\ heading_candidates' = r.self.heading_candidates
       /\ UNCHANGED <<detect_tables, use_toc, detect_headings, table_page, pdf_page, detected,
                    call_args, call_result>>

Fresh(c_detect_tables, c_use_toc, c_detect_headings) ==
    /\ detect_tables = c_detect_tables
    /\ use_toc = c_use_toc
    /\ detect_headings = c_detect_headings
    /\ page_count = 0
    /\ toc_available = FALSE
    /\ text_blocks_by_page = EmptyDict
    /\ font_stats = {}
    /\ heading_candidates = EmptyDict
    /\ pdf = NoPdf
    /\ outcome = "none"
    /\ document = NoDocument
    /\ source = "none"
    /\ table_page = 0
    /\ pdf_page = NoPage
    /\ detected = NotDetected
    /\ call_args = NoCall
    /\ call_result = NoCall
    /\ calls = 0
    /\ repeated = FALSE

(***************************************************************************)
(* The inputs.                                                             *)
(***************************************************************************)
HeadingBlock == [text |-> "Intro", bbox |-> <<0, 1, 10, 2>>, font_size |-> 18,
                 is_bold |-> TRUE]

BodyBlock == [text |-> "Lorem ipsum dolor sit", bbox |-> <<0, 3, 10, 4>>,
              font_size |-> 10, is_bold |-> FALSE]

\* the pages a lifecycle input can hold: an empty page, a page of a heading
\* and body text, a page of body text and one ruled grid
LifeLayouts ==
    {[blocks |-> <<>>, drawings |-> 0],
     [blocks |-> <<HeadingBlock, BodyBlock>>, drawings |-> 0],
     [blocks |-> <<BodyBlock>>, drawings |-> 1]}

\* the outlines of the lifecycle inputs
LifeTocs == {<<>>, << <<1, "Intro", 1>> >>, << <<1, BlankTitle, 1>> >>}

PdfsOf(n, tocs, layouts) ==
    {[page_count |-> n, toc |-> t,
      blocks |-> [p \in 1..n |-> l[p].blocks],
      drawings |-> [p \in 1..n |-> l[p].drawings],
      fails |-> {}] : t \in tocs, l \in [1..n -> layouts]}

LifePdfs == {NoPdf} \cup UNION {PdfsOf(n, LifeTocs, LifeLayouts) : n \in 1..MaxLifePages}

(***************************************************************************)
(* Spec: one parser instance, any configuration, parse called up to        *)
(* MaxCalls times on any of the lifecycle inputs.                          *)
(***************************************************************************)
Init == \E c1 \in BOOLEAN, c2 \in BOOLEAN, c3 \in BOOLEAN : Fresh(c1, c2, c3)

Next == \E pdf_doc \in LifePdfs : parse(pdf_doc)

Spec == Init /\ [][Next]_vars

(***************************************************************************)
(* SpecStructure: one parse on a fresh instance with the default           *)
(* configuration, on an input that has either an outline and no text, or   *)
(* heading blocks and no outline.  An outline has up to MaxToc entries of  *)
(* any level in TocLevels and any page in 1..MaxPages, in any order, for a *)
(* document of 1..MaxPages pages (so an entry can point behind the last    *)
(* page); the title of the i-th entry is the i-th of TocTitles.  Scenario  *)
(* A of the specification is one more input.                               *)
(***************************************************************************)
TocLevels == 1..3

NoBlocks(n) == [p \in 1..n |-> <<>>]

NoDrawings(n) == [p \in 1..n |-> 0]

\* the input with the outline whose i-th entry has level e[i][1] and page
\* e[i][2], and no text
OutlinePdf(n, e) ==
    [page_count |-> n,
     toc |-> [i \in 1..Len(e) |-> <<e[i][1], TocTitles[i], e[i][2]>>],
     blocks |-> NoBlocks(n),
     drawings |-> NoDrawings(n),
     fails |-> {}]

ScenarioA ==
    [page_count |-> 5,
     toc |-> << <<1, "Intro", 1>>, <<2, "Background", 1>>, <<1, "Methods", 3>> >>,
     blocks |-> NoBlocks(5),
     drawings |-> NoDrawings(5),
     fails |-> {}]

\* a block of one of three kinds of heading text, at vertical position y
KindBlock(kind, y) ==
    [text |-> kind, bbox |-> <<0, y, 10, y + 1>>,
     font_size |-> IF kind = "Intro" THEN 18 ELSE 10,
     is_bold |-> kind = "Intro"]

HeadingKinds == {"Intro", "1. Scope", "1.1. Goals"}

\* the input without outline whose j-th heading block, of kind hs[j][1],
\* lies on page hs[j][2] at vertical position j
HeadingPdf(n, hs) ==
    [page_count |-> n,
     toc |-> <<>>,
     blocks |-> [p \in 1..n |->
                    LET OnPage(j) == hs[j][2] = p
                        js == SelectSeq([j \in 1..Len(hs) |-> j], OnPage)
                    IN [k \in 1..Len(js) |-> KindBlock(hs[js[k]][1], js[k])]],
     drawings |-> NoDrawings(n),
     fails |-> {}]

StructureInput(input) ==
    \/ \E n \in 1..MaxPages, k \in 0..MaxToc :
           \E e \in [1..k -> TocLevels \X (1..MaxPages)] : input = OutlinePdf(n, e)
    \/ \E n \in 1..MaxPages, k \in 0..MaxToc :
           \E hs \in [1..k -> HeadingKinds \X (1..n)] : input = HeadingPdf(n, hs)
    \/ input = ScenarioA

InitStructure ==
    /\ StructureInput(pdf)
    /\ detect_tables = TRUE
    /\ use_toc = TRUE
    /\ detect_headings = TRUE
    /\ page_count = 0
    /\ toc_available = FALSE
    /\ text_blocks_by_page = EmptyDict
    /\ font_stats = {}
    /\ heading_candidates = EmptyDict
    /\ outcome = "none"
    /\ document = NoDocument
    /\ source = "none"
    /\ table_page = 0
    /\ pdf_page = NoPage
    /\ detected = NotDetected
    /\ call_args = NoCall
    /\ call_result = NoCall
    /\ calls = 0
    /\ repeated = FALSE

NextStructure == calls = 0 /\ parse(pdf)

SpecStructure == InitStructure /\ [][NextStructure]_vars

(***************************************************************************)
(* SpecOutline: one parse on a fresh instance with the default             *)
(* configuration, on a two-page input without text whose outline has up to *)
(* MaxBadToc entries, each of them well formed or malformed: a level below *)
(* 1 or as large as len(current_pages), a blank title, a page below 1 or   *)
(* behind the last page, or two or four fields in place of three.          *)
(***************************************************************************)
MaxBadToc == 2

EntryLevels == {0, 1, 2, CurrentPagesLen}

EntryPages == {0, 1, 3}

\* the shapes of an outline entry: three fields, or too few, or too many
EntryShapes ==
    {<<"three", level, titled, page>> :
        level \in EntryLevels, titled \in BOOLEAN, page \in EntryPages}
    \cup {<<"two", 1, TRUE, 1>>, <<"four", 1, TRUE, 1>>}

\* the i-th entry of an outline, of shape sh
ShapedEntry(i, sh) ==
    LET title == IF sh[3] THEN TocTitles[i] ELSE BlankTitle
    IN CASE sh[1] = "two" -> <<sh[2], title>>
         [] sh[1] = "four" -> <<sh[2], title, sh[4], 0>>
         [] OTHER -> <<sh[2], title, sh[4]>>

ShapedPdf(shapes) ==
    [page_count |-> 2,
     toc |-> [i \in 1..Len(shapes) |-> ShapedEntry(i, shapes[i])],
     blocks |-> NoBlocks(2),
     drawings |-> NoDrawings(2),
     fails |-> {}]

InitOutline ==
    /\ \E k \in 0..MaxBadToc : \E shapes \in [1..k -> EntryShapes] : pdf = ShapedPdf(shapes)
    /\ detect_tables = TRUE
    /\ use_toc = TRUE
    /\ detect_headings = TRUE
    /\ page_count = 0
    /\ toc_available = FALSE
    /\ text_blocks_by_page = EmptyDict
    /\ font_stats = {}
    /\ heading_candidates = EmptyDict
    /\ outcome = "none"
    /\ document = NoDocument
    /\ source = "none"
    /\ table_page = 0
    /\ pdf_page = NoPage
    /\ detected = NotDetected
    /\ call_args = NoCall
    /\ call_result = NoCall
    /\ calls = 0
    /\ repeated = FALSE

NextOutline == calls = 0 /\ parse(pdf)

SpecOutline == InitOutline /\ [][NextOutline]_vars

(***************************************************************************)
(* SpecContent: one parse on a fresh instance with the default             *)
(* configuration, on an input of 1..MaxContentPages pages with text and an *)
(* outline of up to MaxContentToc entries of level 1 or 2 on any page (no  *)
(* entry: the structure comes from the headings, or from the pages).  A    *)
(* page is empty, or holds a body block whose text no other page has,      *)
(* alone, under a large bold block with the text "Intro" (the title of the *)
(* first outline entry), between that block and a numbered heading, or     *)
(* under a block of body size with the text "Background" (the title of the *)
(* second outline entry).                                                  *)
(***************************************************************************)
MaxContentPages == 2

MaxContentToc == 2

\* the text of the body block of page p
BodyText(p) ==
    CASE p = 1 -> "Alpha"
      [] p = 2 -> "Beta"
      [] p = 3 -> "Gamma"
      [] OTHER -> "Delta"

TextBlock(text, y, font_size, is_bold) ==
    [text |-> text, bbox |-> <<0, y, 10, y + 1>>, font_size |-> font_size,
     is_bold |-> is_bold]

\* the block list of page p, of one of four kinds
ContentPage(p, kind) ==
    CASE kind = "empty" -> <<>>
      [] kind = "body" -> <<TextBlock(BodyText(p), 2, 10, FALSE)>>
      [] kind = "titled" ->
            <<TextBlock("Intro", 1, 18, TRUE), TextBlock(BodyText(p), 2, 10, FALSE)>>
      [] kind = "under" ->
            <<TextBlock("Background", 1, 10, FALSE), TextBlock(BodyText(p), 2, 10, FALSE)>>
      [] OTHER ->
            <<TextBlock("Intro", 1, 18, TRUE), TextBlock(BodyText(p), 2, 10, FALSE),
              TextBlock("1. Scope", 3, 10, FALSE)>>

PageKinds == {"empty", "body", "titled", "nested", "under"}

ContentPdf(n, e, kinds) ==
    [page_count |-> n,
     toc |-> [i \in 1..Len(e) |-> <<e[i][1], TocTitles[i], e[i][2]>>],
     blocks |-> [p \in 1..n |-> ContentPage(p, kinds[p])],
     drawings |-> NoDrawings(n),
     fails |-> {}]

InitContent ==
    /\ \E n \in 1..MaxContentPages, k \in 0..MaxContentToc :
           \E e \in [1..k -> (1..2) \X (1..n)], kinds \in [1..n -> PageKinds] :
               pdf = ContentPdf(n, e, kinds)
    /\ detect_tables = TRUE
    /\ use_toc = TRUE
    /\ detect_headings = TRUE
    /\ page_count = 0
    /\ toc_available = FALSE
    /\ text_blocks_by_page = EmptyDict
    /\ font_stats = {}
    /\ heading_candidates = EmptyDict
    /\ outcome = "none"
    /\ document = NoDocument
    /\ source = "none"
    /\ table_page = 0
    /\ pdf_page = NoPage
    /\ detected = NotDetected
    /\ call_args = NoCall
    /\ call_result = NoCall
    /\ calls = 0
    /\ repeated = FALSE

NextContent == calls = 0 /\ parse(pdf)

SpecContent == InitContent /\ [][NextContent]_vars

(***************************************************************************)
(* SpecTableLoop: the page loop of _extract_tables, one page a step, on a  *)
(* fresh instance with the default configuration.  The input has           *)
(* 1..MaxTablePages pages without text and an outline of up to MaxTableToc *)
(* entries of level 1 or 2 on any page; every page has one ruled grid, the *)
(* first page two; on at most one page the detection fails.  The initial   *)
(* state is the instance and the Document at the entry of the loop.        *)
(***************************************************************************)
MaxTablePages == 3

MaxTableToc == 3

TablesOnPage(p) == IF p = 1 THEN 2 ELSE 1

TablePdf(n, e, failing) ==
    [page_count |-> n,
     toc |-> [i \in 1..Len(e) |-> <<e[i][1], TocTitles[i], e[i][2]>>],
     blocks |-> NoBlocks(n),
     drawings |-> [p \in 1..n |-> TablesOnPage(p)],
     fails |-> failing]

\* parse up to the call of _extract_tables
before_extract_tables(pdf_doc) == parse_result(new_parser(FALSE, TRUE, TRUE), pdf_doc)

InitTableLoop ==
    /\ \E n \in 1..MaxTablePages, k \in 0..MaxTableToc :
           \E e \in [1..k -> (1..2) \X (1..n)], failing \in {{}} \cup {{p} : p \in 1..n} :
               pdf = TablePdf(n, e, failing)
    /\ \E r \in {before_extract_tables(pdf)} :
           /\ page_count = r.self.page_count
           /\ toc_available = r.self.toc_available
           /\ text_blocks_by_page = r.self.text_blocks_by_page
           /\ font_stats = r.self.font_stats
           /\ heading_candidates = r.self.heading_candidates
           /\ document = r.document
           /\ source = r.source
    /\ detect_tables = TRUE
    /\ use_toc = TRUE
    /\ detect_headings = TRUE
    /\ outcome = "extracting"
    /\ table_page = 1
    /\ pdf_page = NoPage
    /\ detected = NotDetected
    /\ call_args = NoCall
    /\ call_result = NoCall
    /\ calls = 0
    /\ repeated = FALSE

\* one iteration of "for page_num in range(1, self.page_count + 1)"
extract_tables_page ==
    /\ outcome = "extracting"
    /\ table_page <= page_count
    /\ LET raised == detect_tables_raises(pdf, table_page)
       IN IF raised # "none" /\ ~caught_in_page_loop(raised)
          THEN /\ outcome' = raised
               /\ document' = NoDocument
               /\ source' = "none"
               /\ table_page' = 0
          ELSE /\ outcome' = outcome
               /\ document' = extract_tables_of_page(pdf, document, table_page)
               /\ source' = source
               /\ table_page' = table_page + 1
    /\ UNCHANGED <<detect_tables, use_toc, detect_headings, page_count, toc_available,
                   text_blocks_by_page, font_stats, heading_candidates, pdf, calls,
                   repeated, pdf_page, detected, call_args, call_result>>

\* the end of the loop and the return of parse
extract_tables_done ==
    /\ outcome = "extracting"
    /\ table_page > page_count
    /\ outcome' = "returned"
    /\ table_page' = 0
    /\ calls' = calls + 1
    /\ UNCHANGED <<detect_tables, use_toc, detect_headings, page_count, toc_available,
                   text_blocks_by_page, font_stats, heading_candidates, pdf, document,
                   source, repeated, pdf_page, detected, call_args, call_result>>

NextTableLoop == extract_tables_page \/ extract_tables_done

SpecTableLoop == InitTableLoop /\ [][NextTableLoop]_vars

(***************************************************************************)
(* Table detection on one page: PDFParser._detect_tables (core/parser.py)  *)
(* and TableDetector (core/tables.py).  A page is what the code reads of a *)
(* fitz.Page: page.number, page.get_drawings() as a list of drawings       *)
(* [type, pts, rect], and page.get_text("dict")["blocks"] as a list of     *)
(* blocks [type, lines], a line being [bbox, spans] and a span             *)
(* [text, bbox].  Coordinates are integers (points).  A line segment       *)
(* (x0, y0, x1, y1) is <<x0, y0, x1, y1>>, so Python's line[axis] is       *)
(* line[axis + 1] here.  A cell text is the sequence of the span texts it  *)
(* is made of; the empty string is <<>>.                                   *)
(***************************************************************************)
Abs(a) == IF a < 0 THEN -a ELSE a

\* max(xs) of a non-empty list of integers
MaxOf(xs) == CHOOSE m \in {xs[i] : i \in 1..Len(xs)} : \A i \in 1..Len(xs) : m >= xs[i]

\* [line[k] for line in lines], with Python's 0-based k
Coordinate(lines, k) == [i \in 1..Len(lines) |-> lines[i][k + 1]]

\* Python's < on tuples of one or two integers
KeyLess(a, b) == a[1] < b[1] \/ (a[1] = b[1] /\ Len(a) > 1 /\ a[2] < b[2])

\* sorted(xs, key=...), which is stable; keys[i] is the key of xs[i]
sorted_by(xs, keys) ==
    LET n == Len(xs)
        before(i, j) == KeyLess(keys[i], keys[j]) \/ (keys[i] = keys[j] /\ i < j)
        rank(i) == 1 + Cardinality({j \in 1..n : before(j, i)})
    IN [r \in 1..n |-> xs[CHOOSE i \in 1..n : rank(i) = r]]

\* sorted(lines, key=lambda line: line[axis])
sort_lines(lines, axis) ==
    sorted_by(lines, [i \in 1..Len(lines) |-> <<lines[i][axis + 1]>>])

\* list(set(xs)): the order of the result is not used by any caller (they
\* take min, max or a set of coordinates of it)
RECURSIVE list_of_set(_)
list_of_set(S) ==
    IF S = {} THEN <<>>
    ELSE LET x == CHOOSE y \in S : TRUE IN <<x>> \o list_of_set(S \ {x})

\* the text lines and the spans of the text blocks of a page
page_lines(pg) ==
    LET text_blocks == SelectSeq(pg.blocks, LAMBDA b : b.type = 0)
    IN Flatten([b \in 1..Len(text_blocks) |-> text_blocks[b].lines])

page_spans(pg) ==
    LET lines == page_lines(pg) IN Flatten([l \in 1..Len(lines) |-> lines[l].spans])

\* page.get_text("text", clip=clip).strip(): the texts of the spans that
\* start inside the clip rectangle
get_text_clip(pg, clip) ==
    LET inside == SelectSeq(page_spans(pg),
                            LAMBDA s : /\ clip[1] <= s.bbox[1] /\ s.bbox[1] < clip[3]
                                       /\ clip[2] <= s.bbox[2] /\ s.bbox[2] < clip[4])
    IN [i \in 1..Len(inside) |-> inside[i].text]

\* "Create cells": one row for each pair of consecutive y coordinates, one
\* cell for each pair of consecutive x coordinates, rows without text
\* skipped
grid_rows(pg, y_coords, x_coords) ==
    LET all_rows == [i \in 1..(Len(y_coords) - 1) |->
                        [j \in 1..(Len(x_coords) - 1) |->
                            get_text_clip(pg, <<x_coords[j], y_coords[i],
                                                x_coords[j + 1], y_coords[i + 1]>>)]]
    IN SelectSeq(all_rows, LAMBDA row : \E j \in 1..Len(row) : row[j] # <<>>)

\* Table(caption=..., page=..., position=..., data=...) of models/document.py
TableModel(caption, page_num, position, data) ==
    [caption |-> caption, page |-> page_num, position |-> position, data |-> data]

\* the classification of a drawing of type "l" by its end points
is_horizontal(d) == d.type = "l" /\ Abs(d.pts[2][2] - d.pts[1][2]) < 2

is_vertical(d) == d.type = "l" /\ ~is_horizontal(d) /\ Abs(d.pts[2][1] - d.pts[1][1]) < 2

horizontal_line(d) ==
    <<Min2(d.pts[1][1], d.pts[2][1]), d.pts[1][2], Max2(d.pts[1][1], d.pts[2][1]), d.pts[2][2]>>

vertical_line(d) ==
    <<d.pts[1][1], Min2(d.pts[1][2], d.pts[2][2]), d.pts[2][1], Max2(d.pts[1][2], d.pts[2][2])>>

drawn_h_lines(drawings) ==
    LET sel == SelectSeq(drawings, is_horizontal)
    IN [i \in 1..Len(sel) |-> horizontal_line(sel[i])]

drawn_v_lines(drawings) ==
    LET sel == SelectSeq(drawings, is_vertical)
    IN [i \in 1..Len(sel) |-> vertical_line(sel[i])]

(***************************************************************************)
(* PDFParser._detect_tables and its helpers.                               *)
(***************************************************************************)
min_table_rows == 2

min_table_cols == 2

\* the groups after the first n of the sorted lines; the last one is
\* current_group
RECURSIVE parser_group_loop(_, _, _, _)
parser_group_loop(sorted_lines, n, axis, tolerance) ==
    IF n = 1 THEN << <<sorted_lines[1]>> >>
    ELSE LET groups == parser_group_loop(sorted_lines, n - 1, axis, tolerance)
             current_group == groups[Len(groups)]
             prev_pos == current_group[Len(current_group)][axis + 1]
             curr_pos == sorted_lines[n][axis + 1]
         IN IF Abs(curr_pos - prev_pos) <= tolerance
            THEN [groups EXCEPT ![Len(groups)] = Append(current_group, sorted_lines[n])]
            ELSE Append(groups, <<sorted_lines[n]>>)

\* PDFParser._group_lines_by_position
parser_group_lines_by_position(lines, axis, tolerance) ==
    IF lines = <<>> THEN <<>>
    ELSE parser_group_loop(sort_lines(lines, axis), Len(lines), axis, tolerance)

\* the test of _find_table_candidates on one pair of groups
parser_is_candidate(h_group, v_group) ==
    LET h_span == MaxOf(Coordinate(h_group, 2)) - MinOf(Coordinate(h_group, 0))
        v_span == MaxOf(Coordinate(v_group, 3)) - MinOf(Coordinate(v_group, 1))
        intersections ==
            Cardinality({c \in (1..Len(h_group)) \X (1..Len(v_group)) :
                            LET h_line == h_group[c[1]]
                                v_line == v_group[c[2]]
                            IN /\ h_line[1] <= v_line[1] /\ v_line[1] <= h_line[3]
                               /\ v_line[2] <= h_line[2] /\ h_line[2] <= v_line[4]})
    IN /\ h_span > 0
       /\ v_span > 0
       /\ intersections >= Min2(Len(h_group), Len(v_group))

\* PDFParser._find_table_candidates: the pairs (h_group, v_group), h_groups
\* in the outer loop
parser_find_table_candidates(h_groups, v_groups) ==
    LET nv == Len(v_groups)
        pairs == [k \in 1..(Len(h_groups) * nv) |->
                     <<h_groups[((k - 1) \div nv) + 1], v_groups[((k - 1) % nv) + 1]>>]
    IN SelectSeq(pairs, LAMBDA c : parser_is_candidate(c[1], c[2]))

\* PDFParser._extract_table_data
parser_extract_table_data(pg, h_lines, v_lines) ==
    LET h_positions == SortedList(SeqToSet(Coordinate(h_lines, 1)))
        v_positions == SortedList(SeqToSet(Coordinate(v_lines, 0)))
    IN IF Len(h_positions) < 2 \/ Len(v_positions) < 2 THEN <<>>
       ELSE grid_rows(pg, h_positions, v_positions)

\* the test on a candidate in the loop of _detect_tables
parser_accepts(pg, h_group, v_group) ==
    /\ Len(h_group) >= min_table_rows
    /\ Len(v_group) >= min_table_cols
    /\ LET table_data == parser_extract_table_data(pg, h_group, v_group)
       IN /\ table_data # <<>>
          /\ Len(table_data) >= min_table_rows
          /\ Len(table_data[1]) >= min_table_cols

\* PDFParser._detect_tables
parser_detect_tables(pg, page_num) ==
    LET h_lines == drawn_h_lines(pg.drawings)
        v_lines == drawn_v_lines(pg.drawings)
        h_groups == parser_group_lines_by_position(h_lines, 1, 5)
        v_groups == parser_group_lines_by_position(v_lines, 0, 5)
        candidates ==
            IF /\ Len(h_lines) >= min_table_rows
               /\ Len(h_groups) >= min_table_rows
               /\ Len(v_groups) >= min_table_cols
            THEN parser_find_table_candidates(h_groups, v_groups)
            ELSE <<>>
        accepted == SelectSeq(candidates, LAMBDA c : parser_accepts(pg, c[1], c[2]))
    IN [k \in 1..Len(accepted) |->
           LET h_group == accepted[k][1]
               v_group == accepted[k][2]
           IN TableModel(<<"Table on page", page_num>>, page_num,
                         <<MinOf(Coordinate(v_group, 0)), MinOf(Coordinate(h_group, 1)),
                           MaxOf(Coordinate(v_group, 2)), MaxOf(Coordinate(h_group, 3))>>,
                         parser_extract_table_data(pg, h_group, v_group))]

(***************************************************************************)
(* TableDetector, with the default configuration of its constructor.       *)
(***************************************************************************)
min_rows == 2

min_cols == 2

min_cell_height == 5

min_cell_width == 10

line_tolerance == 2

intersect_tolerance == 3

table_padding == 5

\* the four edges _extract_lines_from_drawings adds for the rectangles
rectangle_rects(drawings) ==
    LET sel == SelectSeq(drawings, LAMBDA d : d.type = "re")
    IN [i \in 1..Len(sel) |-> sel[i].rect]

\* TableDetector._extract_lines_from_drawings
extract_lines_from_drawings(drawings) ==
    LET rects == rectangle_rects(drawings)
    IN [h_lines |-> drawn_h_lines(drawings)
                    \o Flatten([i \in 1..Len(rects) |->
                                   <<<<rects[i][1], rects[i][2], rects[i][3], rects[i][2]>>,
                                     <<rects[i][1], rects[i][4], rects[i][3], rects[i][4]>>>>]),
        v_lines |-> drawn_v_lines(drawings)
                    \o Flatten([i \in 1..Len(rects) |->
                                   <<<<rects[i][1], rects[i][2], rects[i][1], rects[i][4]>>,
                                     <<rects[i][3], rects[i][2], rects[i][3], rects[i][4]>>>>])]

\* TableDetector._filter_close_coordinates, after the first n coordinates
RECURSIVE filter_close_loop(_, _)
filter_close_loop(coords, n) ==
    IF n = 1 THEN <<coords[1]>>
    ELSE LET filtered == filter_close_loop(coords, n - 1)
         IN IF coords[n] - filtered[Len(filtered)] > line_tolerance
            THEN Append(filtered, coords[n])
            ELSE filtered

filter_close_coordinates(coords) ==
    IF coords = <<>> THEN <<>> ELSE filter_close_loop(coords, Len(coords))

\* TableDetector._is_aligned_with_group
is_aligned_with_group(rect, group) ==
    \E k \in 1..Len(group) :
        LET r == group[k]
            y_aligned == \/ Abs(rect[2] - r[2]) < line_tolerance
                         \/ Abs(rect[4] - r[4]) < line_tolerance
                         \/ Abs(rect[2] - r[4]) < line_tolerance
                         \/ Abs(rect[4] - r[2]) < line_tolerance
            x_aligned == \/ Abs(rect[1] - r[1]) < line_tolerance
                         \/ Abs(rect[3] - r[3]) < line_tolerance
                         \/ Abs(rect[1] - r[3]) < line_tolerance
                         \/ Abs(rect[3] - r[1]) < line_tolerance
        IN x_aligned \/ y_aligned

\* the inner loop of _group_rectangles over rectangles[j..]: the group as
\* the list of the positions of its rectangles
RECURSIVE rectangle_group_loop(_, _, _, _)
rectangle_group_loop(rectangles, j, visited, group) ==
    IF j > Len(rectangles) THEN group
    ELSE IF /\ j \notin visited
            /\ j \notin SeqToSet(group)
            /\ is_aligned_with_group(rectangles[j],
                                     [k \in 1..Len(group) |-> rectangles[group[k]]])
         THEN rectangle_group_loop(rectangles, j + 1, visited, Append(group, j))
         ELSE rectangle_group_loop(rectangles, j + 1, visited, group)

\* the outer loop of _group_rectangles over rectangles[i..]
RECURSIVE group_rectangles_loop(_, _, _)
group_rectangles_loop(rectangles, i, visited) ==
    IF i > Len(rectangles) THEN <<>>
    ELSE IF i \in visited THEN group_rectangles_loop(rectangles, i + 1, visited)
    ELSE LET group == rectangle_group_loop(rectangles, 1, visited, <<i>>)
             rest == group_rectangles_loop(rectangles, i + 1, visited \cup SeqToSet(group))
         IN IF Len(group) >= min_rows * min_cols
            THEN <<[k \in 1..Len(group) |-> rectangles[group[k]]]>> \o rest
            ELSE rest

\* TableDetector._group_rectangles
group_rectangles(rectangles) == group_rectangles_loop(rectangles, 1, {})

\* TableDetector._extract_data_from_rectangles
extract_data_from_rectangles(pg, rectangles) ==
    LET x_coords == filter_close_coordinates(SortedList(
                        SeqToSet(Coordinate(rectangles, 0)) \cup SeqToSet(Coordinate(rectangles, 2))))
        y_coords == filter_close_coordinates(SortedList(
                        SeqToSet(Coordinate(rectangles, 1)) \cup SeqToSet(Coordinate(rectangles, 3))))
    IN grid_rows(pg, y_coords, x_coords)

\* TableDetector._detect_rectangle_tables
detect_rectangle_tables(drawings, pg) ==
    LET rects == rectangle_rects(drawings)
        cell_rects == SelectSeq(rects, LAMBDA r : /\ r[3] - r[1] >= min_cell_width
                                                  /\ r[4] - r[2] >= min_cell_height)
        rect_groups == IF Len(cell_rects) < min_rows * min_cols THEN <<>>
                       ELSE group_rectangles(cell_rects)
        accepted == SelectSeq(rect_groups,
                        LAMBDA group :
                            /\ Len(group) >= min_rows * min_cols
                            /\ LET table_data == extract_data_from_rectangles(pg, group)
                               IN /\ table_data # <<>>
                                  /\ Len(table_data) >= min_rows
                                  /\ Len(table_data[1]) >= min_cols)
    IN [k \in 1..Len(accepted) |->
           LET group == accepted[k]
               x_coords == Coordinate(group, 0) \o Coordinate(group, 2)
               y_coords == Coordinate(group, 1) \o Coordinate(group, 3)
           IN TableModel(<<>>, pg.number + 1,
                         <<MinOf(x_coords) - table_padding, MinOf(y_coords) - table_padding,
                           MaxOf(x_coords) + table_padding, MaxOf(y_coords) + table_padding>>,
                         extract_data_from_rectangles(pg, group))]

\* the groups after the first n of the sorted lines, those of one line
\* included; the last one is current_group and current_pos the position of
\* its first line
RECURSIVE group_loop(_, _, _)
group_loop(sorted_lines, n, axis) ==
    IF n = 1 THEN << <<sorted_lines[1]>> >>
    ELSE LET groups == group_loop(sorted_lines, n - 1, axis)
             current_group == groups[Len(groups)]
             current_pos == current_group[1][axis + 1]
             line_pos == sorted_lines[n][axis + 1]
         IN IF Abs(line_pos - current_pos) <= line_tolerance
            THEN [groups EXCEPT ![Len(groups)] = Append(current_group, sorted_lines[n])]
            ELSE Append(groups, <<sorted_lines[n]>>)

\* TableDetector._group_lines_by_position: "Only keep groups with multiple
\* lines"
group_lines_by_position(lines, axis) ==
    IF lines = <<>> THEN <<>>
    ELSE SelectSeq(group_loop(sort_lines(lines, axis), Len(lines), axis),
                   LAMBDA group : Len(group) >= 2)

\* TableDetector._is_valid_grid
is_valid_grid(h_lines, v_lines) ==
    LET intersections ==
            Cardinality({c \in (1..Len(h_lines)) \X (1..Len(v_lines)) :
                            LET h == h_lines[c[1]]
                                v == v_lines[c[2]]
                            IN /\ h[1] - intersect_tolerance <= v[1]
                               /\ v[1] <= h[3] + intersect_tolerance
                               /\ v[2] - intersect_tolerance <= h[2]
                               /\ h[2] <= v[4] + intersect_tolerance})
    IN /\ Len(h_lines) >= min_rows
       /\ Len(v_lines) >= min_cols
       /\ intersections >= Min2(Len(h_lines), Len(v_lines))

\* TableDetector._regions_overlap
regions_overlap(bounds1, bounds2) ==
    ~(\/ bounds1[3] < bounds2[1]
      \/ bounds2[3] < bounds1[1]
      \/ bounds1[4] < bounds2[2]
      \/ bounds2[4] < bounds1[2])

\* TableDetector._merge_regions
merge_regions(region1, region2) ==
    [bounds |-> <<Min2(region1.bounds[1], region2.bounds[1]),
                  Min2(region1.bounds[2], region2.bounds[2]),
                  Max2(region1.bounds[3], region2.bounds[3]),
                  Max2(region1.bounds[4], region2.bounds[4])>>,
     h_lines |-> list_of_set(SeqToSet(region1.h_lines) \cup SeqToSet(region2.h_lines)),
     v_lines |-> list_of_set(SeqToSet(region1.v_lines) \cup SeqToSet(region2.v_lines))]

\* the loop of _merge_overlapping_regions after the first n sorted regions:
\* merged, with current as its last element
RECURSIVE merge_loop(_, _)
merge_loop(sorted_regions, n) ==
    IF n = 1 THEN <<sorted_regions[1]>>
    ELSE LET merged == merge_loop(sorted_regions, n - 1)
             current == merged[Len(merged)]
         IN IF regions_overlap(current.bounds, sorted_regions[n].bounds)
            THEN [merged EXCEPT ![Len(merged)] = merge_regions(current, sorted_regions[n])]
            ELSE Append(merged, sorted_regions[n])

\* TableDetector._merge_overlapping_regions
merge_overlapping_regions(regions) ==
    IF regions = <<>> THEN <<>>
    ELSE merge_loop(sorted_by(regions, [i \in 1..Len(regions) |->
                                           <<regions[i].bounds[2], regions[i].bounds[1]>>]),
                    Len(regions))

\* TableDetector._find_table_regions
find_table_regions(h_lines, v_lines) ==
    LET h_groups == group_lines_by_position(h_lines, 1)
        v_groups == group_lines_by_position(v_lines, 0)
        nv == Len(v_groups)
        pairs == [k \in 1..(Len(h_groups) * nv) |->
                     <<h_groups[((k - 1) \div nv) + 1], v_groups[((k - 1) % nv) + 1]>>]
        grids == SelectSeq(pairs, LAMBDA c : is_valid_grid(c[1], c[2]))
    IN merge_overlapping_regions(
           [k \in 1..Len(grids) |->
               LET h_group == grids[k][1]
                   v_group == grids[k][2]
               IN [bounds |-> <<MinOf(Coordinate(v_group, 0)) - table_padding,
                                MinOf(Coordinate(h_group, 1)) - table_padding,
                                MaxOf(Coordinate(v_group, 2)) + table_padding,
                                MaxOf(Coordinate(h_group, 3)) + table_padding>>,
                   h_lines |-> h_group,
                   v_lines |-> v_group]])

\* TableDetector._extract_table_data
extract_table_data(pg, h_lines, v_lines) ==
    LET y_coords == filter_close_coordinates(SortedList(SeqToSet(Coordinate(h_lines, 1))))
        x_coords == filter_close_coordinates(SortedList(SeqToSet(Coordinate(v_lines, 0))))
    IN IF Len(y_coords) < 2 \/ Len(x_coords) < 2 THEN <<>>
       ELSE grid_rows(pg, y_coords, x_coords)

\* round(x / 5) * 5 of a non-negative integer x (x / 5 is never halfway
\* between two integers)
round5(x) == ((x + 2) \div 5) * 5

\* spans_by_line[line_y] of _detect_tables_from_text: the spans of every
\* line whose bbox starts at line_y, in the order of the page
spans_at(pg, line_y) ==
    LET lines == SelectSeq(page_lines(pg), LAMBDA l : l.bbox[2] = line_y)
    IN Flatten([l \in 1..Len(lines) |-> lines[l].spans])

\* the line groups of _detect_tables_from_text after the first n of the
\* sorted line positions, short ones included; the last one is
\* current_group
RECURSIVE line_group_loop(_, _)
line_group_loop(ys, n) ==
    IF n = 1 THEN << <<ys[1]>> >>
    ELSE LET groups == line_group_loop(ys, n - 1)
         IN IF ys[n] - ys[n - 1] < min_cell_height * 2
            THEN [groups EXCEPT ![Len(groups)] = Append(groups[Len(groups)], ys[n])]
            ELSE Append(groups, <<ys[n]>>)

\* the cells of one text line after the first n of its spans sorted by x:
\* the row so far and the cell under construction
RECURSIVE text_row_loop(_, _)
text_row_loop(spans, n) ==
    IF n = 0 THEN [row |-> <<>>, cell_text |-> <<>>]
    ELSE LET before == text_row_loop(spans, n - 1)
             new_cell == n = 1 \/ spans[n].bbox[1] - spans[n - 1].bbox[1] > min_cell_width
             row == IF new_cell /\ before.cell_text # <<>>
                    THEN Append(before.row, before.cell_text)
                    ELSE before.row
             cell_text == IF new_cell THEN <<>> ELSE before.cell_text
         IN [row |-> row, cell_text |-> Append(cell_text, spans[n].text)]

\* the row _detect_tables_from_text makes of a text line
text_row(spans) ==
    LET sorted_spans == sorted_by(spans, [i \in 1..Len(spans) |-> <<spans[i].bbox[1]>>])
        last == text_row_loop(sorted_spans, Len(sorted_spans))
    IN IF last.cell_text # <<>> THEN Append(last.row, last.cell_text) ELSE last.row

\* a row left as it is
pad_row_never(row, max_cols) == row

\* "Ensure all rows have the same number of columns":
\* row + [""] * (max_cols - len(row))
pad_row(row, max_cols) ==
    IF Len(row) < max_cols THEN row \o [k \in 1..(max_cols - Len(row)) |-> <<>>] ELSE row

\* the table data _detect_tables_from_text makes of a line group
text_table_data(pg, line_group) ==
    LET rows == [k \in 1..Len(line_group) |-> text_row(spans_at(pg, line_group[k]))]
        kept == SelectSeq(rows, LAMBDA row : Len(row) >= min_cols)
        max_cols == IF kept # <<>> THEN MaxOf([k \in 1..Len(kept) |-> Len(kept[k])]) ELSE 0
    IN [k \in 1..Len(kept) |-> pad_row(kept[k], max_cols)]

\* the x positions of the spans of a text line, rounded to a multiple of 5
rounded_xs(pg, line_y) ==
    LET spans == spans_at(pg, line_y)
    IN {round5(spans[k].bbox[1]) : k \in 1..Len(spans)}

\* TableDetector._detect_tables_from_text
detect_tables_from_text(pg, page_num) ==
    LET lines == page_lines(pg)
        line_ys == {lines[l].bbox[2] : l \in {k \in 1..Len(lines) : lines[k].spans # <<>>}}
        wide == {y \in line_ys : Len(spans_at(pg, y)) >= min_cols}
        column_x_positions ==
            {x_pos \in UNION {rounded_xs(pg, y) : y \in wide} :
                Cardinality({y \in wide : x_pos \in rounded_xs(pg, y)}) >= min_rows}
        line_groups ==
            IF line_ys = {} THEN <<>>
            ELSE SelectSeq(line_group_loop(SortedList(line_ys), Cardinality(line_ys)),
                           LAMBDA group : Len(group) >= min_rows)
        with_table == SelectSeq([g \in 1..Len(line_groups) |-> g],
                          LAMBDA g : Len(text_table_data(pg, line_groups[g])) >= min_rows)
    IN IF Cardinality(column_x_positions) < min_cols THEN <<>>
       ELSE [k \in 1..Len(with_table) |->
                LET line_group == line_groups[with_table[k]]
                    bboxes == Flatten([l \in 1..Len(line_group) |->
                                  LET spans == spans_at(pg, line_group[l])
                                  IN [n \in 1..Len(spans) |-> spans[n].bbox]])
                IN TableModel(<<"Text Table", with_table[k], "on page", page_num>>, page_num,
                              <<MinOf(Coordinate(bboxes, 0)), MinOf(Coordinate(bboxes, 1)),
                                MaxOf(Coordinate(bboxes, 2)), MaxOf(Coordinate(bboxes, 3))>>,
                              text_table_data(pg, line_group))]

\* the grid tables of TableDetector.detect_tables: the regions whose table
\* data passes "Validate table data"
grid_tables(pg, page_num, table_regions) ==
    LET accepted == SelectSeq([i \in 1..Len(table_regions) |-> i],
                        LAMBDA i :
                            LET table_data == extract_table_data(pg, table_regions[i].h_lines,
                                                                 table_regions[i].v_lines)
                            IN /\ table_data # <<>>
                               /\ Len(table_data) >= min_rows
                               /\ \E r \in 1..Len(table_data) :
                                      Len(table_data[r]) >= min_cols)
    IN [k \in 1..Len(accepted) |->
           LET region == table_regions[accepted[k]]
           IN TableModel(<<"Table", accepted[k], "on page", page_num>>, page_num,
                         region.bounds,
                         extract_table_data(pg, region.h_lines, region.v_lines))]

\* TableDetector.detect_tables
detector_detect_tables(pg, page_num) ==
    IF pg.drawings = <<>> THEN <<>>
    ELSE LET lines == extract_lines_from_drawings(pg.drawings)
             too_few == Len(lines.h_lines) < min_rows \/ Len(lines.v_lines) < min_cols
             rect_tables == detect_rectangle_tables(pg.drawings, pg)
             tables == grid_tables(pg, page_num,
                                   find_table_regions(lines.h_lines, lines.v_lines))
         IN IF too_few /\ rect_tables # <<>> THEN rect_tables
            ELSE IF tables # <<>> THEN tables
            ELSE detect_tables_from_text(pg, page_num)

(***************************************************************************)
(* SpecTables: table detection on one page, by PDFParser._detect_tables or *)
(* by TableDetector.detect_tables.  The page is a ruled page, a page of    *)
(* cell rectangles or a page of text lines.                                *)
(*                                                                         *)
(* A ruled page has 2..MaxLineGroups horizontal and vertical line          *)
(* positions, sy resp. sx apart, each drawn as one segment or as two       *)
(* segments that lie d apart; every horizontal segment crosses every       *)
(* vertical one.  It may have one more horizontal and one more vertical    *)
(* line far outside of the grid.  Its text is none, one span in every cell *)
(* of the grid, or two lines of two spans that start in the first cell.    *)
(* A page of rectangles has rows x cols cell rectangles that share their   *)
(* edges, with one span in each.  A page of text has one stray line and    *)
(* 2..MaxTextLines text lines, gap apart, of 1..MaxLineSpans spans each.   *)
(***************************************************************************)
MaxLineGroups == 3

MaxTextLines == 3

MaxLineSpans == 3

LineSpacings == {4, 10, 20}

LineGaps == {8, 12}

CellTexts == <<"Alpha", "Beta", "Gamma", "Delta">>

CellText(i, j) == CellTexts[((2 * i + j) % 4) + 1]

Span(text, x, y) == [text |-> text, bbox |-> <<x, y, x + 8, y + 4>>]

\* a text line of the spans, with the bbox of the line around them
TextLine(spans) ==
    LET bboxes == [k \in 1..Len(spans) |-> spans[k].bbox]
    IN [bbox |-> <<MinOf(Coordinate(bboxes, 0)), MinOf(Coordinate(bboxes, 1)),
                   MaxOf(Coordinate(bboxes, 2)), MaxOf(Coordinate(bboxes, 3))>>,
        spans |-> spans]

\* one text block of the lines, or no block
TextBlocks(lines) == IF lines = <<>> THEN <<>> ELSE <<[type |-> 0, lines |-> lines]>>

LineDrawing(x0, y0, x1, y1) == [type |-> "l", pts |-> <<<<x0, y0>>, <<x1, y1>>>>, rect |-> <<>>]

RectDrawing(x0, y0, x1, y1) == [type |-> "re", pts |-> <<>>, rect |-> <<x0, y0, x1, y1>>]

Position(i, spacing) == 10 + (i - 1) * spacing

RuledTexts == {"none", "cells", "two_by_two"}

RuledPage(nh, nv, sy, sx, segments, d, outer, text) ==
    LET x_first == Position(1, sx) - 3
        x_last == Position(nv, sx) + 3
        y_first == Position(1, sy) - 3
        y_last == Position(nh, sy) + 3
        h == Flatten([i \in 1..nh |->
                 [c \in 1..segments |->
                     LET y == Position(i, sy) + (c - 1) * d
                     IN LineDrawing(x_first, y, x_last, y)]])
        v == Flatten([j \in 1..nv |->
                 [c \in 1..segments |->
                     LET x == Position(j, sx) + (c - 1) * d
                     IN LineDrawing(x, y_first, x, y_last)]])
        far == IF outer
               THEN <<LineDrawing(x_first, y_last + 30, x_last, y_last + 30),
                      LineDrawing(x_last + 30, y_first, x_last + 30, y_last)>>
               ELSE <<>>
        cells == Flatten([i \in 1..(nh - 1) |->
                     [j \in 1..(nv - 1) |->
                         TextLine(<<Span(CellText(i, j), Position(j, sx) + 2,
                                         Position(i, sy) + 2)>>)]])
        two_by_two == [l \in 1..2 |->
                          TextLine([k \in 1..2 |->
                              Span(CellText(l, k), 12 + (k - 1) * 12, 12 + (l - 1) * 6)])]
    IN [number |-> 0,
        drawings |-> h \o v \o far,
        blocks |-> TextBlocks(IF text = "cells" THEN cells
                              ELSE IF text = "two_by_two" THEN two_by_two
                              ELSE <<>>)]

RectPage(rows, cols) ==
    [number |-> 0,
     drawings |-> Flatten([i \in 1..rows |->
                      [j \in 1..cols |->
                          RectDrawing(10 + (j - 1) * 12, 10 + (i - 1) * 10,
                                      10 + j * 12, 10 + i * 10)]]),
     blocks |-> TextBlocks(Flatten([i \in 1..rows |->
                    [j \in 1..cols |->
                        TextLine(<<Span(CellText(i, j), 12 + (j - 1) * 12,
                                        12 + (i - 1) * 10)>>)]]))]

TextPage(counts, gap) ==
    [number |-> 0,
     drawings |-> <<LineDrawing(10, 5, 90, 5)>>,
     blocks |-> TextBlocks([l \in 1..Len(counts) |->
                    TextLine([k \in 1..counts[l] |->
                        Span(CellText(l, k), 10 + (k - 1) * 20, 10 + (l - 1) * gap)])])]

InitTables ==
    /\ \/ \E nh \in 2..MaxLineGroups, nv \in 2..MaxLineGroups :
              \E sy \in LineSpacings, sx \in LineSpacings :
                  \E sd \in {<<1, 0>>, <<2, 0>>, <<2, 1>>}, outer \in BOOLEAN :
                      \E text \in RuledTexts :
                          pdf_page = RuledPage(nh, nv, sy, sx, sd[1], sd[2], outer, text)
       \/ \E rows \in 1..2, cols \in 1..2 : pdf_page = RectPage(rows, cols)
       \/ \E n \in 2..MaxTextLines :
              \E counts \in [1..n -> 1..MaxLineSpans], gap \in LineGaps :
                  pdf_page = TextPage(counts, gap)
    /\ detected = NotDetected
    /\ call_args = NoCall
    /\ call_result = NoCall
    /\ detect_tables = TRUE
    /\ use_toc = TRUE
    /\ detect_headings = TRUE
    /\ page_count = 0
    /\ toc_available = FALSE
    /\ text_blocks_by_page = EmptyDict
    /\ font_stats = {}
    /\ heading_candidates = EmptyDict
    /\ pdf = NoPdf
    /\ outcome = "none"
    /\ document = NoDocument
    /\ source = "none"
    /\ table_page = 0
    /\ calls = 0
    /\ repeated = FALSE

\* tables = self._detect_tables(page, page_num) of PDFParser
parser_detect ==
    /\ detected.by = "none"
    /\ pdf_page # NoPage
    /\ detected' = [by |-> "PDFParser",
                    tables |-> parser_detect_tables(pdf_page, pdf_page.number + 1)]
    /\ UNCHANGED <<detect_tables, use_toc, detect_headings, page_count, toc_available,
                   text_blocks_by_page, font_stats, heading_candidates, pdf, outcome,
                   document, source, table_page, pdf_page, calls, repeated,
                   call_args, call_result>>

\* TableDetector().detect_tables(page, page_num)
detector_detect ==
    /\ detected.by = "none"
    /\ pdf_page # NoPage
    /\ detected' = [by |-> "TableDetector",
                    tables |-> detector_detect_tables(pdf_page, pdf_page.number + 1)]
    /\ UNCHANGED <<detect_tables, use_toc, detect_headings, page_count, toc_available,
                   text_blocks_by_page, font_stats, heading_candidates, pdf, outcome,
                   document, source, table_page, pdf_page, calls, repeated,
                   call_args, call_result>>

NextTables == parser_detect \/ detector_detect

SpecTables == InitTables /\ [][NextTables]_vars

(***************************************************************************)
(* Properties of the returned Document.                                    *)
(***************************************************************************)
Returned == outcome = "returned"

\* every section of the returned Document, at every depth
AllSections == SeqToSet(get_all_sections(document.sections))

\* every sibling list of the returned Document
SiblingLists == {document.sections} \cup {s.subsections : s \in AllSections}

FirstPage(s) == s.pages[1]

LastPage(s) == s.pages[Len(s.pages)]

\* an outline entry with the title of section s, as the index of the entry
EntryOf(s) == CHOOSE i \in 1..Len(pdf.toc) : pdf.toc[i][2] = s.title

HasEntry(s) == \E i \in 1..Len(pdf.toc) : pdf.toc[i][2] = s.title

\* C1: in every Document parse returns, every page number in the pages of
\* every section at every depth lies in 1..totalPages, also when an outline
\* entry's page is greater than totalPages.
C1_PagesWithinDocument ==
    Returned =>
        \A s \in AllSections : \A i \in 1..Len(s.pages) :
            1 <= s.pages[i] /\ s.pages[i] <= document.pages

\* C2: after page-range resolution, in every sibling list in its resulting
\* order, the last page of each sibling is the first page of the next
\* sibling minus 1, and no two siblings share a page.
C2_SiblingsContiguous ==
    Returned =>
        \A sibs \in SiblingLists :
            /\ \A i \in 1..(Len(sibs) - 1) :
                   (sibs[i].pages # <<>> /\ sibs[i + 1].pages # <<>>)
                       => LastPage(sibs[i]) = FirstPage(sibs[i + 1]) - 1
            /\ \A i \in 1..Len(sibs), j \in 1..Len(sibs) :
                   i < j => SeqToSet(sibs[i].pages) \cap SeqToSet(sibs[j].pages) = {}

\* C3: after page-range resolution, the pages of every direct child of every
\* section, at every depth, are a subset of the section's pages, for any
\* order of the anchor pages.
C3_ChildPagesWithinParent ==
    Returned =>
        \A s \in AllSections : \A k \in 1..Len(s.subsections) :
            SeqToSet(s.subsections[k].pages) \subseteq SeqToSet(s.pages)

\* a Document was returned in which a child with pages was anchored, by the
\* outline, on a page before the anchor page of its parent
C3_Witness ==
    /\ Returned
    /\ \E s \in AllSections : \E k \in 1..Len(s.subsections) :
           LET child == s.subsections[k]
           IN /\ child.pages # <<>>
              /\ HasEntry(s) /\ HasEntry(child)
              /\ pdf.toc[EntryOf(child)][3] < pdf.toc[EntryOf(s)][3]

\* C4: the outline (1,Intro,1), (2,Background,1), (1,Methods,3) with 5 pages
\* yields the top-level sections Intro with pages 1,2 and Methods with pages
\* 3,4,5, and Background as Intro's only child with pages 1,2: the last
\* child of a section ends at its parent's end page.
C4_ScenarioA ==
    (Returned /\ pdf = ScenarioA) =>
        /\ Len(document.sections) = 2
        /\ document.sections[1].title = "Intro"
        /\ document.sections[1].pages = <<1, 2>>
        /\ document.sections[2].title = "Methods"
        /\ document.sections[2].pages = <<3, 4, 5>>
        /\ document.sections[2].subsections = <<>>
        /\ Len(document.sections[1].subsections) = 1
        /\ document.sections[1].subsections[1].title = "Background"
        /\ document.sections[1].subsections[1].pages = <<1, 2>>

\* C5: after page-range resolution, every section's page list is a
\* contiguous ascending integer range without duplicates, also after a
\* parent was extended by its children's pages.
C5_PagesContiguous ==
    Returned =>
        \A s \in AllSections :
            s.pages # <<>> => s.pages = PyRange(FirstPage(s), LastPage(s))

(***************************************************************************)
(* Properties of sequences of parse calls on one instance.                 *)
(***************************************************************************)
InstanceFields ==
    <<page_count, toc_available, text_blocks_by_page, font_stats, heading_candidates>>

\* C6: parsing the same input twice in a row on one instance, with the same
\* configuration, ends the same way and returns the same section tree.
C6_RepeatedParseSameDocument ==
    [][(calls >= 1 /\ calls' = calls + 1 /\ pdf' = pdf)
           => (outcome' = outcome /\ document' = document)]_vars

\* the same input was parsed twice in a row and its structure was built from
\* the detected headings
C6_Witness ==
    /\ repeated
    /\ Returned
    /\ ~toc_available /\ detect_headings /\ DOMAIN heading_candidates # {}
    /\ document.sections # <<>>

\* C7: after any sequence of parse calls on one instance, the Document
\* returned for an input is the Document a fresh parser with the same
\* configuration returns for it.
C7_SameAsFreshParser ==
    Returned => document = parse_result(new_parser(detect_tables, use_toc, detect_headings), pdf).document

\* C8: when the input reports zero pages, parse raises PDFInputError, returns
\* no Document, and has built nothing: the fields of the instance are those
\* of before the call.
C8_ZeroPagesRejected ==
    [][(calls' = calls + 1 /\ pdf'.page_count = 0)
           => /\ outcome' = "PDFInputError"
              /\ document' = NoDocument
              /\ UNCHANGED InstanceFields]_vars

\* a parse call on an input of zero pages has ended
C8_Witness == calls >= 1 /\ pdf.page_count = 0 /\ outcome = "PDFInputError"

\* the input of the last call has pages but no outline and no text block,
\* and the instance holds no heading candidate
NoUsableContent ==
    /\ pdf.page_count >= 1
    /\ pdf.toc = <<>>
    /\ \A p \in 1..pdf.page_count : pdf.blocks[p] = <<>>
    /\ DOMAIN heading_candidates = {}

\* C9: when the input has at least one page but no usable content, parse
\* aborts with PDFInputError and returns no Document.
C9_NoContentIsFatal ==
    (calls >= 1 /\ NoUsableContent) => (outcome = "PDFInputError" /\ document = NoDocument)

\* the outline gave no section (disabled, absent, or all entries dropped) and
\* the detected headings were not used (disabled, absent, or passed over)
LastResort ==
    /\ ~(use_toc /\ \E i \in 1..Len(pdf.toc) : Strip(pdf.toc[i][2]) # "")
    /\ ~(~toc_available /\ detect_headings /\ DOMAIN heading_candidates # {})

\* C10: every Document parse returns has at least one top-level section, and
\* in the last-resort case it has exactly one level-1 section per page p,
\* with pages [p].
C10_AlwaysSomeStructure ==
    Returned =>
        /\ document.sections # <<>>
        /\ LastResort =>
               /\ Len(document.sections) = document.pages
               /\ \A p \in 1..document.pages :
                      /\ document.sections[p].level = 1
                      /\ document.sections[p].pages = <<p>>
                      /\ document.sections[p].subsections = <<>>

\* a Document of one section per page was returned for a two-page input
\* whose outline was enabled and present, with all its entries dropped
C10_Witness ==
    /\ Returned
    /\ LastResort
    /\ use_toc /\ pdf.toc # <<>>
    /\ Len(document.sections) = 2

(***************************************************************************)
(* The choice of the structure source.                                     *)
(***************************************************************************)
\* the outline is enabled and has an entry that gives a section
OutlineYields == use_toc /\ \E i \in 1..Len(pdf.toc) : Strip(pdf.toc[i][2]) # ""

\* heading detection is enabled and there is a heading candidate
HeadingsExist == detect_headings /\ DOMAIN heading_candidates # {}

\* C11: the structure comes from the outline when the outline is enabled and
\* yields a section; otherwise from the detected headings whenever heading
\* detection is enabled and a heading candidate exists; and from the pages
\* only when both the outline and the headings yield no section.
C11_FallbackOrder ==
    Returned =>
        /\ OutlineYields => source = "toc"
        /\ (~OutlineYields /\ HeadingsExist) => source = "headings"
        /\ source = "simple" => (~OutlineYields /\ ~HeadingsExist)

(***************************************************************************)
(* Malformed outline entries.                                              *)
(***************************************************************************)
\* C12: whatever entry of the outline is malformed (level below 1 or very
\* large, blank title, page below 1, wrong number of fields), building the
\* structure completes and parse returns a Document in which every section
\* has a level of at least 1, a non-blank title and only pages from 1 on.
C12_MalformedEntryTolerated ==
    calls >= 1 =>
        /\ Returned
        /\ \A s \in AllSections :
               /\ s.level >= 1
               /\ Strip(s.title) # ""
               /\ \A i \in 1..Len(s.pages) : s.pages[i] >= 1

(***************************************************************************)
(* The content of the sections.  In SpecContent the text of a body block   *)
(* names its page, so a body text in a content is that block of that page. *)
(***************************************************************************)
\* the sections of the returned Document in preorder
SectionList == get_all_sections(document.sections)

BodyTexts == {BodyText(p) : p \in 1..pdf.page_count}

\* C16: in the returned Document every text block of the input is counted
\* at most once: no two distinct sections, at any depth, both have the same
\* block of the same page in their content.
C16_BlockCountedOnce ==
    Returned =>
        \A i \in 1..Len(SectionList), j \in 1..Len(SectionList) :
            i # j =>
                SeqToSet(SectionList[i].content) \cap SeqToSet(SectionList[j].content)
                    \cap BodyTexts = {}

\* C17: a section built from the outline or from the headings never has, in
\* its content, a block whose text equals the section's own title.
C17_OwnTitleNotInContent ==
    (Returned /\ source \in {"toc", "headings"}) =>
        \A i \in 1..Len(SectionList) :
            SectionList[i].title \notin SeqToSet(SectionList[i].content)

\* a section was built whose title is the text of a block on one of its
\* pages, and it took another block of that page as content
C17_Witness ==
    /\ Returned
    /\ source \in {"toc", "headings"}
    /\ \E i \in 1..Len(SectionList) : \E p \in SeqToSet(SectionList[i].pages) :
           /\ p \in 1..pdf.page_count
           /\ SectionList[i].title \in SeqToSet(TextsOf(pdf.blocks[p]))
           /\ BodyText(p) \in SeqToSet(SectionList[i].content)

\* C18: no section's content has a block whose text equals the title of any
\* section of the tree.
C18_NoTitleInAnyContent ==
    Returned =>
        \A i \in 1..Len(SectionList), j \in 1..Len(SectionList) :
            SectionList[j].title \notin SeqToSet(SectionList[i].content)

(***************************************************************************)
(* The assignment of the tables to the sections.                           *)
(***************************************************************************)
\* the page-by-page loop ends with the Document parse computes
LoopAgreesWithParse ==
    Returned => document = parse_result(new_parser(TRUE, TRUE, TRUE), pdf).document

\* the tables in the tables lists of the sections
AttachedTables ==
    UNION {SeqToSet(SectionList[i].tables) : i \in 1..Len(SectionList)}

\* the positions in SectionList of the sections whose pages hold page q
Holders(q) == {i \in 1..Len(SectionList) : q \in SeqToSet(SectionList[i].pages)}

\* the number of times table t is in the tables list of section i
Occurrences(i, t) ==
    Cardinality({j \in 1..Len(SectionList[i].tables) : SectionList[i].tables[j] = t})

\* C13: a detection failure on page p is caught in the page loop: the loop
\* goes on to the next page with the tables attached so far unchanged, no
\* table of page p is ever attached, every other page is processed (its
\* tables are attached when a section holds it), and parse returns.
C13_PageFailureIsLocal ==
    /\ [][(outcome = "extracting" /\ table_page \in pdf.fails)
              => /\ outcome' = "extracting"
                 /\ table_page' = table_page + 1
                 /\ document' = document]_vars
    /\ [](outcome \in {"extracting", "returned"})
    /\ [](Returned =>
              \A q \in 1..pdf.page_count :
                  IF q \in pdf.fails
                  THEN \A t \in AttachedTables : t.page # q
                  ELSE Holders(q) # {} =>
                           \A idx \in 1..pdf.drawings[q] : Table(q, idx) \in AttachedTables)

\* parse returned after a failure on a page, with tables attached from a
\* page before it and from a page after it
C13_Witness ==
    /\ Returned
    /\ \E p \in pdf.fails :
           /\ \E t \in AttachedTables : t.page < p
           /\ \E t \in AttachedTables : t.page > p

\* the position of section i in the input: of its entry in the outline, or
\* of its page when the sections were made from the pages
DeclaredAt(i) == IF source = "toc" THEN EntryOf(SectionList[i]) ELSE i

\* C19: a table of page p is in the section with the fewest pages among the
\* sections, at any depth, whose pages hold p; among several such sections
\* with equally few pages, it is in the one declared first in the input.
C19_MostSpecificFirstDeclared ==
    Returned =>
        \A i \in 1..Len(SectionList) : \A t \in SeqToSet(SectionList[i].tables) :
            /\ i \in Holders(t.page)
            /\ \A k \in Holders(t.page) :
                   /\ Len(SectionList[i].pages) <= Len(SectionList[k].pages)
                   /\ (k # i /\ Len(SectionList[i].pages) = Len(SectionList[k].pages))
                          => DeclaredAt(i) < DeclaredAt(k)

\* C20: every detected table is in the tables list of exactly one section,
\* which holds the table's page, when some section holds that page, and in
\* none otherwise; a page that no section holds leaves all tables lists as
\* they are and does not end the parse.
C20_TableInExactlyOneSection ==
    /\ [][(outcome = "extracting" /\ table_page <= page_count /\ Holders(table_page) = {})
              => (outcome' = "extracting" /\ document' = document)]_vars
    /\ [](outcome \in {"extracting", "returned"})
    /\ [](Returned =>
              \A q \in 1..pdf.page_count \ pdf.fails : \A idx \in 1..pdf.drawings[q] :
                  /\ \A i \in 1..Len(SectionList) \ Holders(q) :
                         Occurrences(i, Table(q, idx)) = 0
                  /\ Holders(q) # {} =>
                         \E i \in Holders(q) :
                             /\ Occurrences(i, Table(q, idx)) = 1
                             /\ \A k \in Holders(q) \ {i} :
                                    Occurrences(k, Table(q, idx)) = 0)

\* parse returned a Document in which one page with a table is held by two
\* sections and another page with a table by none
C20_Witness ==
    /\ Returned
    /\ \E q \in 1..pdf.page_count \ pdf.fails : Cardinality(Holders(q)) >= 2
    /\ \E q \in 1..pdf.page_count \ pdf.fails : Holders(q) = {} /\ pdf.drawings[q] >= 1

(***************************************************************************)
(* Properties of table detection.                                          *)
(***************************************************************************)
DetectedTables == SeqToSet(detected.tables)

\* C14: every Table that table detection produced, on the line-grid path,
\* the rectangle path or the text-alignment path, has a non-empty data list
\* whose rows all have the same length.
C14_DataRectangular ==
    \A t \in DetectedTables :
        /\ t.data # <<>>
        /\ \A r \in 1..Len(t.data) : Len(t.data[r]) = Len(t.data[1])

\* TableDetector returned a table of the text-alignment path with a row that
\* was padded with an empty cell, and so had fewer cells than another row
C14_Witness ==
    /\ detected.by = "TableDetector"
    /\ \E t \in DetectedTables :
           /\ t.caption # <<>>
           /\ t.caption[1] = "Text Table"
           /\ \E r \in 1..Len(t.data) : t.data[r][Len(t.data[r])] = <<>>

\* the text of the cell enclosed by two groups of horizontal and two groups
\* of vertical lines
enclosed_text(pg, h_groups, v_groups) ==
    get_text_clip(pg, <<MaxOf(Coordinate(v_groups[1], 0)), MaxOf(Coordinate(h_groups[1], 1)),
                        MinOf(Coordinate(v_groups[2], 0)), MinOf(Coordinate(h_groups[2], 1))>>)

\* exactly two groups of horizontal and two groups of vertical lines, of two
\* segments each, every horizontal segment crossing every vertical one, and
\* text in the enclosed cell
two_by_two_groups(pg, h_lines, v_lines, h_groups, v_groups) ==
    /\ Len(h_groups) = 2
    /\ Len(v_groups) = 2
    /\ \A g \in 1..2 : Len(h_groups[g]) = 2 /\ Len(v_groups[g]) = 2
    /\ \A i \in 1..Len(h_lines), j \in 1..Len(v_lines) :
           /\ h_lines[i][1] < v_lines[j][1] /\ v_lines[j][1] < h_lines[i][3]
           /\ v_lines[j][2] < h_lines[i][2] /\ h_lines[i][2] < v_lines[j][4]
    /\ enclosed_text(pg, h_groups, v_groups) # <<>>

\* the page is one of Scenario B for the detection that ran, by the line
\* groups that detection forms
ScenarioB ==
    \/ /\ detected.by = "PDFParser"
       /\ LET h_lines == drawn_h_lines(pdf_page.drawings)
              v_lines == drawn_v_lines(pdf_page.drawings)
          IN two_by_two_groups(pdf_page, h_lines, v_lines,
                               parser_group_lines_by_position(h_lines, 1, 5),
                               parser_group_lines_by_position(v_lines, 0, 5))
    \/ /\ detected.by = "TableDetector"
       /\ LET lines == extract_lines_from_drawings(pdf_page.drawings)
          IN /\ lines.h_lines # <<>>
             /\ lines.v_lines # <<>>
             /\ two_by_two_groups(pdf_page, lines.h_lines, lines.v_lines,
                    group_loop(sort_lines(lines.h_lines, 1), Len(lines.h_lines), 1),
                    group_loop(sort_lines(lines.v_lines, 0), Len(lines.v_lines), 0))

\* C15: on a page whose drawings form exactly two horizontal line groups of
\* 2 segments each and two vertical line groups of 2 segments each, every
\* horizontal segment crossing every vertical one and text in the enclosed
\* cell, table detection returns exactly one Table, with 2 data rows.
C15_ScenarioB_OneTableTwoRows ==
    ScenarioB =>
        /\ Len(detected.tables) = 1
        /\ Len(detected.tables[1].data) = 2

(***************************************************************************)
(* SpecAssembly: the tree assembly of the two builders on its own, before  *)
(* the page ranges are determined.  The input is a list of up to           *)
(* MaxEntries entries; the i-th has the i-th of TocTitles as its title, a  *)
(* level in 1..MaxLevel and one of two positions (page, y), in any       *)
(* order.  The outline builder reads an entry as (level, title, page); the *)
(* heading builder reads the list as all_headings and sorts it.            *)
(***************************************************************************)
MaxEntries == 3

MaxLevel == 4

EntryPositions == {<<1, 2>>, <<2, 1>>}

AssemblyEntry(i, level, pos) ==
    [title |-> TocTitles[i], level |-> level, page |-> pos[1],
     bbox |-> <<0, pos[2], 10, pos[2] + 1>>]

\* the lists of up to n entries
EntryLists(n) ==
    UNION {{[i \in 1..k |-> AssemblyEntry(i, c[i][1], c[i][2])] :
               c \in [1..k -> (1..MaxLevel) \X EntryPositions]} : k \in 0..n}

\* document.sections after the loop of _create_structure_from_toc over the
\* entries, on a Document without sections
toc_tree(entries) ==
    toc_loop([sections |-> <<>>, stack |-> <<>>],
             [i \in 1..Len(entries) |->
                 <<entries[i].level, entries[i].title, entries[i].page>>]).sections

\* document.sections after the sort and the loop of
\* _create_structure_from_headings over all_headings, on a Document without
\* sections
heading_tree(all_headings) ==
    heading_loop([sections |-> <<>>, stack |-> <<>>], sort_headings(all_headings)).sections

\* the fields of a parser instance and of its calls
ParserState ==
    <<detect_tables, use_toc, detect_headings, page_count, toc_available,
      text_blocks_by_page, font_stats, heading_candidates, pdf, outcome, document,
      source, table_page, pdf_page, detected, calls, repeated>>

\* a fresh instance with the default configuration, on which no call is made
Idle ==
    /\ detect_tables = TRUE
    /\ use_toc = TRUE
    /\ detect_headings = TRUE
    /\ page_count = 0
    /\ toc_available = FALSE
    /\ text_blocks_by_page = EmptyDict
    /\ font_stats = {}
    /\ heading_candidates = EmptyDict
    /\ pdf = NoPdf
    /\ outcome = "none"
    /\ document = NoDocument
    /\ source = "none"
    /\ table_page = 0
    /\ pdf_page = NoPage
    /\ detected = NotDetected
    /\ calls = 0
    /\ repeated = FALSE

InitAssembly ==
    /\ Idle
    /\ call_args \in EntryLists(MaxEntries)
    /\ call_result = [built |-> {}, toc |-> <<>>, headings |-> <<>>]

\* the outline builder runs on the list
build_from_toc ==
    /\ "toc" \notin call_result.built
    /\ call_result' = [call_result EXCEPT !.built = @ \cup {"toc"},
                                          !.toc = toc_tree(call_args)]
    /\ UNCHANGED <<call_args, ParserState>>

\* the heading builder runs on the list
build_from_headings ==
    /\ "headings" \notin call_result.built
    /\ call_result' = [call_result EXCEPT !.built = @ \cup {"headings"},
                                          !.headings = heading_tree(call_args)]
    /\ UNCHANGED <<call_args, ParserState>>

NextAssembly == build_from_toc \/ build_from_headings

SpecAssembly == InitAssembly /\ [][NextAssembly]_vars

\* the parent of a top-level section
Top == "(top)"

\* the pairs (title of the parent, title) of the sections of a tree
RECURSIVE ParentPairs(_, _)
ParentPairs(sections, parent) ==
    UNION {{<<parent, sections[i].title>>}
               \cup ParentPairs(sections[i].subsections, sections[i].title) :
           i \in 1..Len(sections)}

\* the pairs (level of the parent, level) of the subsections of a tree
LevelPairs(sections) ==
    LET all == get_all_sections(sections)
    IN UNION {{<<all[i].level, all[i].subsections[k].level>> :
                  k \in 1..Len(all[i].subsections)} : i \in 1..Len(all)}

LevelsOf(entries) == [i \in 1..Len(entries) |-> entries[i].level]

\* the headings ordered by page, then vertical position
ByPosition(hs) == sorted_by(hs, [i \in 1..Len(hs) |-> <<hs[i].page, hs[i].bbox[2]>>])

\* the title of the nearest heading before hs[i] that has a smaller level
\* and no heading of a level <= its own between itself and hs[i]
NearestOpen(hs, i) ==
    LET Open(j) == /\ hs[j].level < hs[i].level
                   /\ \A k \in (j + 1)..(i - 1) : hs[k].level > hs[j].level
        js == {j \in 1..(i - 1) : Open(j)}
    IN IF js = {} THEN Top
       ELSE hs[CHOOSE j \in js : \A k \in js : k <= j].title

\* C21: in the tree the heading builder makes, the parent of a heading is
\* the nearest heading before it, in the order by page and vertical
\* position, that has a smaller level and was not closed by a heading of a
\* level <= its own in between; the heading is top-level when there is none;
\* and the preorder of the tree is that order.
C21_HeadingTreeParents ==
    "headings" \in call_result.built =>
        LET hs == ByPosition(call_args)
            tree == call_result.headings
        IN /\ [i \in 1..Len(get_all_sections(tree)) |-> get_all_sections(tree)[i].title] = [i \in 1..Len(hs) |-> hs[i].title]
           /\ ParentPairs(tree, Top) =
                  {<<NearestOpen(hs, i), hs[i].title>> : i \in 1..Len(hs)}

\* a list that is not in position order, skips a level, closes a heading
\* and reopens under an earlier one
C21_Witness ==
    /\ "headings" \in call_result.built
    /\ LevelsOf(ByPosition(call_args)) = <<1, 3, 2>>
    /\ ByPosition(call_args) # call_args
    /\ Len(call_result.headings) = 1
    /\ Len(call_result.headings[1].subsections) = 2

\* C22: for one list of entries in position order, the outline builder and
\* the heading builder make trees with the same parent-child relation.
C22_BuildersAgree ==
    (call_result.built = {"toc", "headings"} /\ ByPosition(call_args) = call_args) =>
        ParentPairs(call_result.toc, Top) = ParentPairs(call_result.headings, Top)

\* the levels 1, 3, 3: the outline builder puts the third entry under the
\* second, the heading builder under the first
C22_FailingInput ==
    /\ call_result.built = {"toc", "headings"}
    /\ ByPosition(call_args) = call_args
    /\ LevelsOf(call_args) = <<1, 3, 3>>
    /\ <<"Background", "Methods">> \in ParentPairs(call_result.toc, Top)
    /\ <<"Intro", "Methods">> \in ParentPairs(call_result.headings, Top)

\* C29: in the trees both builders make, the level of a subsection is
\* greater than the level of its parent.
C29_ChildLevelGreater ==
    \A p \in LevelPairs(call_result.toc) \cup LevelPairs(call_result.headings) : p[2] > p[1]

\* the levels 1, 3, 3: the outline builder makes a section of level 3 the
\* parent of a section of level 3
C29_FailingInput ==
    /\ "toc" \in call_result.built
    /\ LevelsOf(call_args) = <<1, 3, 3>>
    /\ <<3, 3>> \in LevelPairs(call_result.toc)

\* C23: in the returned Document every section at every depth covers at
\* least one page, also when two siblings start on the same page or an
\* entry points behind the last page.
C23_EverySectionHasPages ==
    Returned => \A s \in AllSections : s.pages # <<>>

\* two top-level siblings that start on page 1: the first is left without
\* pages
C23_FailingInput ==
    /\ Returned
    /\ pdf = OutlinePdf(2, << <<1, 1>>, <<1, 1>> >>)
    /\ document.sections[1].title = "Intro"
    /\ document.sections[1].pages = <<>>
    /\ document.sections[2].pages = <<1, 2>>

\* an entry that points behind the last page: its section is left without
\* pages
C23_FailingInputBehind ==
    /\ Returned
    /\ pdf = OutlinePdf(1, << <<1, 2>> >>)
    /\ document.sections[1].pages = <<>>

\* the vertical positions of the blocks of page p whose text is the title
\* of a direct child of s that covers page p
ChildHeadingYs(s, p) ==
    {pdf.blocks[p][k].bbox[2] :
        k \in {j \in 1..Len(pdf.blocks[p]) :
                   \E c \in 1..Len(s.subsections) :
                       /\ s.subsections[c].title = pdf.blocks[p][j].text
                       /\ p \in SeqToSet(s.subsections[c].pages)}}

\* the vertical positions of the blocks of page p with the body text of p
BodyYs(p) ==
    {pdf.blocks[p][k].bbox[2] :
        k \in {j \in 1..Len(pdf.blocks[p]) : pdf.blocks[p][j].text = BodyText(p)}}

\* C24: when the heading of a direct child lies on the first page of a
\* section, the body block of that page is in the content of the section
\* only if it lies strictly above the topmost such heading.
C24_OnlyBlocksAboveChildHeading ==
    (Returned /\ source \in {"toc", "headings"}) =>
        \A i \in 1..Len(SectionList) :
            LET s == SectionList[i]
            IN s.pages # <<>> =>
                   LET p == MinOf(s.pages)
                   IN (p \in 1..pdf.page_count /\ ChildHeadingYs(s, p) # {}) =>
                          \A y \in BodyYs(p) :
                              BodyText(p) \in SeqToSet(s.content) =>
                                  \A h \in ChildHeadingYs(s, p) : y < h

\* the outline Intro > Background on one page that holds the block
\* "Background" above the body block: no heading candidate is found on the
\* page and the body block is in the content of Intro
C24_FailingInput ==
    /\ Returned
    /\ source = "toc"
    /\ pdf = ContentPdf(1, << <<1, 1>>, <<2, 1>> >>, <<"under">>)
    /\ heading_candidates = EmptyDict
    /\ document.sections[1].content = <<"Background", "Alpha">>

(***************************************************************************)
(* SpecMerge: TableDetector._merge_overlapping_regions on its own.  The    *)
(* input is a list of up to MaxRegions regions in any order, each the      *)
(* region _find_table_regions makes of the four edges of one of nine       *)
(* rectangles: the bounds are the rectangle with table_padding around it.  *)
(***************************************************************************)
MaxRegions == 3

RegionXs == {<<0, 20>>, <<0, 40>>, <<100, 120>>}

RegionYs == {<<0, 40>>, <<10, 30>>, <<20, 50>>}

\* the region of the grid whose outer lines are the edges of the rectangle
\* with the horizontal extent xs and the vertical extent ys
RegionOf(xs, ys) ==
    [bounds |-> <<xs[1] - table_padding, ys[1] - table_padding,
                  xs[2] + table_padding, ys[2] + table_padding>>,
     h_lines |-> << <<xs[1], ys[1], xs[2], ys[1]>>, <<xs[1], ys[2], xs[2], ys[2]>> >>,
     v_lines |-> << <<xs[1], ys[1], xs[1], ys[2]>>, <<xs[2], ys[1], xs[2], ys[2]>> >>]

\* the lists of up to n regions
RegionLists(n) ==
    UNION {{[i \in 1..k |-> RegionOf(c[i][1], c[i][2])] : c \in [1..k -> RegionXs \X RegionYs]} :
              k \in 0..n}

InitMerge ==
    /\ Idle
    /\ call_args \in RegionLists(MaxRegions)
    /\ call_result = [called |-> FALSE, merged |-> <<>>]

\* merged_regions = self._merge_overlapping_regions(regions)
merge_call ==
    /\ ~call_result.called
    /\ call_result' = [called |-> TRUE, merged |-> merge_overlapping_regions(call_args)]
    /\ UNCHANGED <<call_args, ParserState>>

NextMerge == merge_call

SpecMerge == InitMerge /\ [][NextMerge]_vars

\* two rectangles (x0, y0, x1, y1) have a point in common
Overlapping(a, b) == a[1] <= b[3] /\ b[1] <= a[3] /\ a[2] <= b[4] /\ b[2] <= a[4]

\* rectangle a lies within rectangle b
Within(a, b) == b[1] <= a[1] /\ b[2] <= a[2] /\ a[3] <= b[3] /\ a[4] <= b[4]

\* the input region r was merged into the returned region o: o has its lines
MergedInto(r, o) ==
    /\ SeqToSet(r.h_lines) \subseteq SeqToSet(o.h_lines)
    /\ SeqToSet(r.v_lines) \subseteq SeqToSet(o.v_lines)

\* C25: no two regions the merge returns have overlapping bounds, and the
\* bounds of a returned region contain the bounds of every input region
\* merged into it.
C25_MergedRegionsDisjoint ==
    call_result.called =>
        LET merged == call_result.merged
        IN /\ \A i \in 1..Len(merged), j \in 1..Len(merged) :
                  i # j => ~Overlapping(merged[i].bounds, merged[j].bounds)
           /\ \A i \in 1..Len(merged), k \in 1..Len(call_args) :
                  MergedInto(call_args[k], merged[i]) =>
                      Within(call_args[k].bounds, merged[i].bounds)

\* three regions: the first and the third in top-left order overlap, the
\* second overlaps neither; all three are returned
C25_FailingInput ==
    /\ call_result.called
    /\ call_args = <<RegionOf(<<0, 20>>, <<0, 40>>), RegionOf(<<100, 120>>, <<10, 30>>),
                     RegionOf(<<0, 40>>, <<20, 50>>)>>
    /\ call_result.merged = call_args
    /\ Overlapping(call_args[1].bounds, call_args[3].bounds)
    /\ ~Overlapping(call_args[1].bounds, call_args[2].bounds)
    /\ ~Overlapping(call_args[2].bounds, call_args[3].bounds)

\* the containment half of C25, which the merge keeps
C25_Containment ==
    call_result.called =>
        \A i \in 1..Len(call_result.merged), k \in 1..Len(call_args) :
            MergedInto(call_args[k], call_result.merged[i]) =>
                Within(call_args[k].bounds, call_result.merged[i].bounds)

(***************************************************************************)
(* SpecLadder: TableDetector.detect_tables on one page, one detection      *)
(* method a step.  The pages are those of SpecTables and a page of text    *)
(* without drawings.  call_result.tried lists the methods in the order     *)
(* they ran.                                                               *)
(***************************************************************************)
\* the pages with up to groups line positions in each direction
TablePages(groups) ==
    {RuledPage(nh, nv, sy, sx, sd[1], sd[2], outer, text) :
        nh \in 2..groups, nv \in 2..groups, sy \in LineSpacings,
        sx \in LineSpacings, sd \in {<<1, 0>>, <<2, 0>>, <<2, 1>>}, outer \in BOOLEAN,
        text \in RuledTexts}
    \cup {RectPage(rows, cols) : rows \in 1..2, cols \in 1..2}
    \cup UNION {{TextPage(counts, gap) : counts \in [1..n -> 1..MaxLineSpans],
                                         gap \in LineGaps} : n \in 2..MaxTextLines}
    \cup {[TextPage(<<2, 2>>, 8) EXCEPT !.drawings = <<>>]}

\* len(h_lines) < self.min_rows or len(v_lines) < self.min_cols
insufficient_lines(pg) ==
    LET lines == extract_lines_from_drawings(pg.drawings)
    IN Len(lines.h_lines) < min_rows \/ Len(lines.v_lines) < min_cols

\* the tables of the loop over table_regions
line_tables(pg, page_num) ==
    LET lines == extract_lines_from_drawings(pg.drawings)
    IN grid_tables(pg, page_num, find_table_regions(lines.h_lines, lines.v_lines))

LastTried == IF call_result.tried = <<>> THEN "none"
             ELSE call_result.tried[Len(call_result.tried)]

InitLadder ==
    /\ Idle
    /\ call_args \in TablePages(MaxLineGroups)
    /\ call_result = [tried |-> <<>>, tables |-> <<>>, returned |-> FALSE]

\* "If insufficient lines, check for explicit tables using rectangles"
try_rectangles ==
    /\ ~call_result.returned
    /\ call_result.tried = <<>>
    /\ call_args.drawings # <<>>
    /\ insufficient_lines(call_args)
    /\ LET rect_tables == detect_rectangle_tables(call_args.drawings, call_args)
       IN call_result' = [tried |-> <<"rectangles">>,
                          tables |-> rect_tables,
                          returned |-> rect_tables # <<>>]
    /\ UNCHANGED <<call_args, ParserState>>

\* "Find potential tables using line intersections" and the loop over the
\* regions
find_grids ==
    /\ ~call_result.returned
    /\ call_args.drawings # <<>>
    /\ IF insufficient_lines(call_args) THEN call_result.tried = <<"rectangles">>
       ELSE call_result.tried = <<>>
    /\ call_result' = [call_result EXCEPT
                          !.tried = Append(@, "grid"),
                          !.tables = line_tables(call_args, call_args.number + 1)]
    /\ UNCHANGED <<call_args, ParserState>>

\* "try alternative detection methods if no tables found"
try_text ==
    /\ ~call_result.returned
    /\ LastTried = "grid"
    /\ call_result.tables = <<>>
    /\ call_result' = [call_result EXCEPT
                          !.tried = Append(@, "text"),
                          !.tables = detect_tables_from_text(call_args,
                                                             call_args.number + 1)]
    /\ UNCHANGED <<call_args, ParserState>>

\* return [] of a page without drawings, and return tables
return_tables ==
    /\ ~call_result.returned
    /\ \/ call_args.drawings = <<>>
       \/ LastTried = "grid" /\ call_result.tables # <<>>
       \/ LastTried = "text"
    /\ call_result' = [call_result EXCEPT !.returned = TRUE]
    /\ UNCHANGED <<call_args, ParserState>>

NextLadder == try_rectangles \/ find_grids \/ try_text \/ return_tables

SpecLadder == InitLadder /\ [][NextLadder]_vars

\* the steps return what detect_tables returns
LadderReturnsDetectTables ==
    call_result.returned =>
        call_result.tables = detector_detect_tables(call_args, call_args.number + 1)

\* the positions of a method in the list of the methods tried
TriedAt(method) == {i \in 1..Len(call_result.tried) : call_result.tried[i] = method}

\* C26: the line-based grid pipeline runs first; rectangle clustering is
\* tried only after the grid pipeline accepted nothing; the text heuristic
\* is tried only after both returned no table.
C26_LadderOrder ==
    /\ call_result.tried # <<>> => call_result.tried[1] = "grid"
    /\ TriedAt("rectangles") # {} =>
           /\ TriedAt("rectangles") = {2}
           /\ line_tables(call_args, call_args.number + 1) = <<>>
    /\ TriedAt("text") # {} =>
           /\ call_result.tried = <<"grid", "rectangles", "text">>
           /\ line_tables(call_args, call_args.number + 1) = <<>>
           /\ detect_rectangle_tables(call_args.drawings, call_args) = <<>>

\* a page with one drawn line and text: rectangle clustering runs before the
\* grid pipeline
C26_FailingInput ==
    /\ call_args = TextPage(<<2, 2>>, 8)
    /\ call_result.tried = <<"rectangles", "grid", "text">>
    /\ call_result.returned

\* rectangle clustering never returns a table: a page with a rectangle has
\* two horizontal and two vertical lines, so clustering is not tried on it
C26_RectanglesNeverReturn ==
    /\ ~(call_result.returned /\ LastTried = "rectangles")
    /\ (\E i \in 1..Len(call_args.drawings) : call_args.drawings[i].type = "re") =>
           TriedAt("rectangles") = {}

\* the page of two rows of two aligned cell rectangles: clustering would
\* find a table but is not tried
C26_CellsNotClustered ==
    /\ call_args = RectPage(2, 2)
    /\ call_result.returned
    /\ detect_rectangle_tables(call_args.drawings, call_args) # <<>>
    /\ TriedAt("rectangles") = {}

(***************************************************************************)
(* StructureDetector.detect_headings_in_text_blocks (core/structure.py),   *)
(* with the default configuration min_heading_size = 12.0 and              *)
(* heading_size_threshold = 1.2.                                           *)
(***************************************************************************)
min_heading_length == 2

max_heading_length == 200

\* the texts of the vocabulary one of self.heading_patterns matches, with
\* re.IGNORECASE: "2.1 Data" the second, "Appendix A: Data" the fifth
matches_heading_pattern(t) == t \in {"2.1 Data", "Appendix A: Data"}

\* re.match(r"^\s*(\d+)(?:\.(\d+))*(?:\.\s|\s)", text)
numbered_prefix(t) == t \in {"1. Scope", "1.1. Goals", "2.1 Data"}

\* match.group(0).count(".")
prefix_dots(t) ==
    CASE t = "1. Scope" -> 1
      [] t = "1.1. Goals" -> 2
      [] t = "2.1 Data" -> 1
      [] OTHER -> 0

\* text.lower().startswith("appendix")
starts_with_appendix(t) == t = "Appendix A: Data"

\* StructureDetector._analyze_font_statistics: {} or the normal size
detector_analyze_font_statistics(blocks_by_page) ==
    LET counted == SelectSeq(Flatten(blocks_by_page),
                             LAMBDA b : ~(b.font_size <= 0 \/ b.text = ""))
    IN IF counted = <<>> THEN {}
       ELSE {[normal_size |-> normal_size_of(counted)]}

\* StructureDetector._is_heading
is_heading(block, threshold10) ==
    LET text == Strip(block.text)
    IN /\ ~(text = "" \/ TextLen(text) < min_heading_length)
       /\ ~(TextLen(text) > max_heading_length)
       /\ \/ 10 * block.font_size >= threshold10
          \/ block.is_bold /\ 50 * block.font_size >= 4 * threshold10
          \/ IsUpper(text) /\ 3 < TextLen(text) /\ TextLen(text) < 50
          \/ matches_heading_pattern(text)

\* StructureDetector._determine_heading_level
determine_heading_level(block, threshold10) ==
    LET text == Strip(block.text)
        by_size == IF 20 * block.font_size >= 3 * threshold10 THEN 1
                   ELSE IF 40 * block.font_size >= 5 * threshold10 THEN 2
                   ELSE IF 10 * block.font_size >= threshold10 THEN 3
                   ELSE IF block.is_bold THEN 4
                   ELSE 5
        by_number == IF numbered_prefix(text) THEN Min2(prefix_dots(text) + 1, 5)
                     ELSE by_size
    IN IF starts_with_appendix(text) THEN 1 ELSE by_number

\* StructureDetector.detect_headings_in_text_blocks
detect_headings_in_text_blocks(blocks_by_page) ==
    LET stats == detector_analyze_font_statistics(blocks_by_page)
    IN IF stats = {} THEN EmptyDict
       ELSE LET normal_size == (CHOOSE st \in stats : TRUE).normal_size
                threshold10 == heading_threshold_of(normal_size)
                headings_of(blocks) ==
                    LET hb == SelectSeq(blocks, LAMBDA b : is_heading(b, threshold10))
                    IN [k \in 1..Len(hb) |->
                           [text |-> hb[k].text,
                            level |-> determine_heading_level(hb[k], threshold10),
                            bbox |-> hb[k].bbox, font_size |-> hb[k].font_size,
                            is_bold |-> hb[k].is_bold]]
                with_headings == {p \in DOMAIN blocks_by_page :
                                      headings_of(blocks_by_page[p]) # <<>>}
            IN [p \in with_headings |-> headings_of(blocks_by_page[p])]

(***************************************************************************)
(* SpecHeadings: the heading classifier on its own, by                     *)
(* PDFParser._analyze_font_statistics on a fresh instance or by            *)
(* StructureDetector.detect_headings_in_text_blocks.  The input is one     *)
(* page of up to MaxBlocks text blocks, top to bottom: the text "Intro" in *)
(* one of four sizes, regular or bold, or a numbered, capital, appendix or *)
(* body text of size 10.                                                   *)
(***************************************************************************)
MaxBlocks == 3

BlockKinds ==
    {<<"Intro", size, bold>> : size \in {10, 12, 15, 18}, bold \in BOOLEAN}
    \cup {<<t, 10, FALSE>> : t \in {"1.1. Goals", "2.1 Data", "NOTES", "Appendix A: Data",
                                    "Lorem ipsum dolor sit"}}

\* the inputs of one page of up to n blocks
BlockPages(n) ==
    UNION {{<<[i \in 1..k |-> TextBlock(c[i][1], i, c[i][2], c[i][3])]>> :
               c \in [1..k -> BlockKinds]} : k \in 0..n}

NotClassified == [by |-> "none", font_stats |-> {}, heading_candidates |-> EmptyDict]

InitHeadings ==
    /\ Idle
    /\ call_args \in BlockPages(MaxBlocks)
    /\ call_result = NotClassified

\* self.text_blocks_by_page = blocks; self._analyze_font_statistics()
parser_classify ==
    /\ call_result.by = "none"
    /\ LET analysis == analyze_font_statistics(call_args, {}, EmptyDict)
       IN call_result' = [by |-> "PDFParser",
                          font_stats |-> analysis.font_stats,
                          heading_candidates |-> analysis.heading_candidates]
    /\ UNCHANGED <<call_args, ParserState>>

\* StructureDetector().detect_headings_in_text_blocks(blocks)
detector_classify ==
    /\ call_result.by = "none"
    /\ call_result' = [by |-> "StructureDetector",
                       font_stats |-> detector_analyze_font_statistics(call_args),
                       heading_candidates |-> detect_headings_in_text_blocks(call_args)]
    /\ UNCHANGED <<call_args, ParserState>>

NextHeadings == parser_classify \/ detector_classify

SpecHeadings == InitHeadings /\ [][NextHeadings]_vars

\* the heading candidates of all pages
Candidates ==
    UNION {SeqToSet(call_result.heading_candidates[p]) :
               p \in DOMAIN call_result.heading_candidates}

\* the level by size: 1 from 1.5 x threshold, 2 from 1.25 x threshold, 3 from
\* the threshold, 4 below it in bold, 5 otherwise
LevelBySize(c, threshold10) ==
    IF 20 * c.font_size >= 3 * threshold10 THEN 1
    ELSE IF 40 * c.font_size >= 5 * threshold10 THEN 2
    ELSE IF 10 * c.font_size >= threshold10 THEN 3
    ELSE IF c.is_bold THEN 4
    ELSE 5

\* the texts with a numeric prefix, and the dots of the prefix
NumericPrefixDots(t) ==
    CASE t = "1. Scope" -> 1
      [] t = "1.1. Goals" -> 2
      [] t = "2.1 Data" -> 1
      [] OTHER -> -1

ExpectedLevel(c, threshold10) ==
    IF c.text = "Appendix A: Data" THEN 1
    ELSE IF NumericPrefixDots(c.text) >= 0 THEN Min2(NumericPrefixDots(c.text) + 1, 5)
    ELSE LevelBySize(c, threshold10)

\* the size with the greatest total number of characters, the first such
\* size of the page when several have it
CharCount(blocks, size) ==
    LET at == {i \in 1..Len(blocks) : blocks[i].font_size = size}
        RECURSIVE Sum(_)
        Sum(S) == IF S = {} THEN 0
                  ELSE LET i == CHOOSE j \in S : TRUE
                       IN TextLen(blocks[i].text) + Sum(S \ {i})
    IN Sum(at)

GreatestCharCount(blocks, size) ==
    \A i \in 1..Len(blocks) : CharCount(blocks, blocks[i].font_size) <= CharCount(blocks, size)

\* the threshold both classifiers use
ThresholdOfInput ==
    heading_threshold_of((CHOOSE st \in call_result.font_stats : TRUE).normal_size)

\* C27: every heading candidate has the level 1 when its text starts with
\* "Appendix", else dots + 1 (at most 5) when it has a numeric prefix, else
\* the level by size.
C27_LevelAssignment ==
    call_result.by # "none" =>
        \A c \in Candidates :
            /\ c.level \in 1..5
            /\ c.level = ExpectedLevel(c, ThresholdOfInput)

\* the same for the candidates of StructureDetector alone
C27_DetectorLevels ==
    call_result.by = "StructureDetector" =>
        \A c \in Candidates : c.level = ExpectedLevel(c, ThresholdOfInput)

\* PDFParser: a regular block of the threshold size gets the level 4, not 3
C27_FailingInput ==
    /\ call_result.by = "PDFParser"
    /\ call_args = <<<<TextBlock("Lorem ipsum dolor sit", 1, 10, FALSE),
                       TextBlock("Intro", 2, 12, FALSE)>>>>
    /\ ThresholdOfInput = 120
    /\ call_result.heading_candidates[1][1].text = "Intro"
    /\ call_result.heading_candidates[1][1].level = 4

\* the normal size and the threshold of C28 on the classifiers alone
C28_NormalSizeByCharacters ==
    (call_result.by # "none" /\ call_args[1] # <<>>) =>
        \A st \in call_result.font_stats :
            /\ GreatestCharCount(call_args[1], st.normal_size)
            /\ call_result.by = "PDFParser" =>
                   st.heading_threshold = Max2(MinHeadingSize10, st.normal_size * HeadingRatio10)

\* one long block of size 10 outweighs two short blocks of size 18
C28_LongBlockOutweighs ==
    /\ call_result.by # "none"
    /\ call_args = <<<<TextBlock("Intro", 1, 18, TRUE), TextBlock("Intro", 2, 18, TRUE),
                       TextBlock("Lorem ipsum dolor sit", 3, 10, FALSE)>>>>
    /\ \E st \in call_result.font_stats : st.normal_size = 10

\* all text blocks of the last input, as extracted
ExtractedBlocks == Flatten(text_blocks_by_page)

\* C28: after a parse with heading detection, the normal size is the size
\* with the greatest total number of characters and the threshold is
\* max(min_heading_size, normal size x heading_size_threshold); when the
\* input had no text block, the statistics are empty, there is no heading
\* candidate and no structure from headings, and the parse returned.
C28_FontAnalysis ==
    (detect_headings /\ outcome # "none" /\ pdf.page_count >= 1) =>
        /\ ExtractedBlocks = <<>> => Returned
        /\ Returned =>
               IF ExtractedBlocks = <<>>
               THEN /\ font_stats = {}
                    /\ heading_candidates = EmptyDict
                    /\ source # "headings"
               ELSE \E st \in font_stats :
                        /\ font_stats = {st}
                        /\ GreatestCharCount(ExtractedBlocks, st.normal_size)
                        /\ st.heading_threshold =
                               Max2(MinHeadingSize10, st.normal_size * HeadingRatio10)

\* the second parse of an instance, on an input without text blocks, after
\* a parse of an input with a heading: the statistics and the candidates of
\* the first input are still there and the sections are built from them
C28_FailingInput ==
    /\ Returned
    /\ calls = 2
    /\ detect_headings
    /\ pdf.page_count = 1
    /\ pdf.toc = <<>>
    /\ ExtractedBlocks = <<>>
    /\ font_stats # {}
    /\ heading_candidates # EmptyDict
    /\ source = "headings"

\* C28 on a fresh instance, where it holds
C28_FirstParse ==
    calls <= 1 => C28_FontAnalysis

\* the titles of all sections of the returned Document
SectionTitles == {SectionList[i].title : i \in 1..Len(SectionList)}

\* the pages at least one section holds
CoveredPages == UNION {SeqToSet(SectionList[i].pages) : i \in 1..Len(SectionList)}

\* C30: in a Document built from the outline or from the headings, every
\* text block of a page that some section holds, whose text is no section
\* title, is in the content of a section that holds the page.
C30_NoBodyTextLost ==
    (Returned /\ source \in {"toc", "headings"}) =>
        \A p \in CoveredPages \cap (1..pdf.page_count) :
            \A k \in 1..Len(text_blocks_by_page[p]) :
                text_blocks_by_page[p][k].text \notin SectionTitles =>
                    \E i \in 1..Len(SectionList) :
                        /\ p \in SeqToSet(SectionList[i].pages)
                        /\ text_blocks_by_page[p][k].text \in SeqToSet(SectionList[i].content)

\* a parent left the body block of its second page to its subsection, and
\* a parent stopped at a heading above the body block of its first page
C30_Witness ==
    /\ Returned
    /\ source \in {"toc", "headings"}
    /\ \E i \in 1..Len(SectionList) :
           LET s == SectionList[i]
           IN /\ s.subsections # <<>>
              /\ \E p \in SeqToSet(s.pages) \cap (1..pdf.page_count) :
                     /\ BodyText(p) \in SeqToSet(TextsOf(text_blocks_by_page[p]))
                     /\ BodyText(p) \notin SeqToSet(s.content)
                     /\ \E c \in 1..Len(s.subsections) :
                            BodyText(p) \in SeqToSet(s.subsections[c].content)

=============================================================================
